---- MODULE Spec2Model ----
(***************************************************************************)
(* Cloud Monitoring query service (package cloudmonitoring): the service   *)
(* dispatcher QueryData / executeTimeSeriesQuery / buildQueryExecutors and *)
(* the request-parameter builders it calls.                                *)
(*                                                                         *)
(* Go strings that the code takes apart or concatenates are sequences of   *)
(* one-character strings; strings that are only compared and passed on     *)
(* (reference ids, query types, reducer and aligner names) are TLA+        *)
(* strings.  url.Values is a map from key to the list of values added      *)
(* under it, in the order of the Add calls.                                *)
(***************************************************************************)
EXTENDS Integers, Sequences, FiniteSets, TLC

----------------------------------------------------------------------------
(* String literals of the source, as character sequences.                  *)

GrafanaAuto == <<"g", "r", "a", "f", "a", "n", "a", "-", "a", "u", "t", "o">>
CloudMonitoringAuto == <<"c", "l", "o", "u", "d", "-", "m", "o", "n", "i", "t", "o", "r", "i", "n", "g", "-", "a", "u", "t", "o">>
StackdriverAuto == <<"s", "t", "a", "c", "k", "d", "r", "i", "v", "e", "r", "-", "a", "u", "t", "o">>
Plus60s == <<"+", "6", "0", "s">>
Plus300s == <<"+", "3", "0", "0", "s">>
Plus3600s == <<"+", "3", "6", "0", "0", "s">>
SelectSloHealth == <<"s", "e", "l", "e", "c", "t", "_", "s", "l", "o", "_", "h", "e", "a", "l", "t", "h">>
MetricTypeEq == <<"m", "e", "t", "r", "i", "c", ".", "t", "y", "p", "e", "=", "\"">>
HasSubstringOpen == <<"h", "a", "s", "_", "s", "u", "b", "s", "t", "r", "i", "n", "g", "(", "\"">>
EndsWithOpen == <<"e", "n", "d", "s", "_", "w", "i", "t", "h", "(", "\"">>
StartsWithOpen == <<"s", "t", "a", "r", "t", "s", "_", "w", "i", "t", "h", "(", "\"">>
FullMatchOpen == <<"m", "o", "n", "i", "t", "o", "r", "i", "n", "g", ".", "r", "e", "g", "e", "x", ".", "f", "u", "l", "l", "_", "m", "a", "t", "c", "h", "(", "\"">>
CloseCall == <<"\"", ")">>
ProjectsSlash == <<"(", "\"", "p", "r", "o", "j", "e", "c", "t", "s", "/">>
ServicesSlash == <<"/", "s", "e", "r", "v", "i", "c", "e", "s", "/">>
SloSlash == <<"/", "s", "e", "r", "v", "i", "c", "e", "L", "e", "v", "e", "l", "O", "b", "j", "e", "c", "t", "i", "v", "e", "s", "/">>
AndToken == <<"A", "N", "D">>

(* const block of the package *)
metricQueryType == "metrics"
sloQueryType == "slo"
mqlEditorMode == "mql"
crossSeriesReducerDefault == "REDUCE_NONE"
perSeriesAlignerDefault == "ALIGN_MEAN"
PreprocessorTypeNone == "none"
PreprocessorTypeRate == "rate"
PreprocessorTypeDelta == "delta"

(* the character class of wildcardRegexRe: [-\/^$+?.()|[\]{}] *)
wildcardRegexRe == {"-", "/", "^", "$", "+", "?", ".", "(", ")", "|", "[", "]", "{", "}"}

----------------------------------------------------------------------------
(* Library functions of Go used by the code.                               *)

Max(a, b) == IF a >= b THEN a ELSE b

(* int(x / d) for an integer x and d > 0: Go's conversion truncates toward 0 *)
TruncDiv(x, d) == IF x >= 0 THEN x \div d ELSE -((-x) \div d)

Digit(d) == CASE d = 0 -> "0" [] d = 1 -> "1" [] d = 2 -> "2" [] d = 3 -> "3"
              [] d = 4 -> "4" [] d = 5 -> "5" [] d = 6 -> "6" [] d = 7 -> "7"
              [] d = 8 -> "8" [] d = 9 -> "9"

RECURSIVE ItoaNat(_)
ItoaNat(n) == IF n < 10 THEN <<Digit(n)>> ELSE ItoaNat(n \div 10) \o <<Digit(n % 10)>>

(* strconv.Itoa *)
Itoa(n) == IF n < 0 THEN <<"-">> \o ItoaNat(-n) ELSE ItoaNat(n)

(* strings.Count(s, c) for a one-character c *)
Count(s, c) == Cardinality({i \in 1..Len(s) : s[i] = c})

HasPrefix(s, c) == Len(s) > 0 /\ s[1] = c
HasSuffix(s, c) == Len(s) > 0 /\ s[Len(s)] = c
Contains(s, c) == \E i \in 1..Len(s) : s[i] = c

(* strings.ReplaceAll(s, c, new) for a one-character c *)
RECURSIVE ReplaceAll(_, _, _)
ReplaceAll(s, c, new) ==
  IF s = <<>> THEN <<>>
  ELSE (IF Head(s) = c THEN new ELSE <<Head(s)>>) \o ReplaceAll(Tail(s), c, new)

(* strings.Replace(s, c, "", 1): the first c is removed *)
RemoveFirst(s, c) ==
  IF ~Contains(s, c) THEN s
  ELSE LET i == CHOOSE k \in 1..Len(s) : s[k] = c /\ \A j \in 1..(k - 1) : s[j] # c
       IN  SubSeq(s, 1, i - 1) \o SubSeq(s, i + 1, Len(s))

reverse(s) == [i \in 1..Len(s) |-> s[Len(s) + 1 - i]]

RECURSIVE TrimLeft(_, _)
TrimLeft(s, c) == IF s # <<>> /\ Head(s) = c THEN TrimLeft(Tail(s), c) ELSE s

(* strings.Trim(s, c) *)
Trim(s, c) == reverse(TrimLeft(reverse(TrimLeft(s, c)), c))

(* url.Values: Add appends the value to the list stored under the key *)
ParamKeys == {"interval.startTime", "interval.endTime", "filter", "view",
              "aggregation.alignmentPeriod", "aggregation.crossSeriesReducer",
              "aggregation.perSeriesAligner", "aggregation.groupByFields",
              "secondaryAggregation.alignmentPeriod",
              "secondaryAggregation.crossSeriesReducer",
              "secondaryAggregation.perSeriesAligner",
              "secondaryAggregation.groupByFields"}

EmptyValues == [k \in ParamKeys |-> <<>>]

Add(params, key, value) == [params EXCEPT ![key] = Append(@, value)]

RECURSIVE AddAll(_, _, _)
AddAll(params, key, values) ==
  IF values = <<>> THEN params
  ELSE AddAll(Add(params, key, Head(values)), key, Tail(values))

----------------------------------------------------------------------------
(* The request-parameter builders.                                         *)

(* variant: the legacy buckets end at 24 hours and at 7 days *)
calculateAlignmentPeriodWholeDays(alignmentPeriod, intervalMs, durationSeconds) ==
  LET ap1 == IF alignmentPeriod = GrafanaAuto \/ alignmentPeriod = <<>>
             THEN <<"+">> \o Itoa(Max(TruncDiv(intervalMs, 1000), 60)) \o <<"s">>
             ELSE alignmentPeriod
      alignmentPeriodValue == Max(durationSeconds, 60)
  IN  IF ap1 = CloudMonitoringAuto \/ ap1 = StackdriverAuto
      THEN (IF alignmentPeriodValue < 60 * 60 * 24 THEN Plus60s
            ELSE IF alignmentPeriodValue < 60 * 60 * 24 * 7 THEN Plus300s
            ELSE Plus3600s)
      ELSE ap1

(* variant: only grafana-auto is the current sentinel, the empty specifier is kept *)
calculateAlignmentPeriodKeepEmpty(alignmentPeriod, intervalMs, durationSeconds) ==
  LET ap1 == IF alignmentPeriod = GrafanaAuto
             THEN <<"+">> \o Itoa(Max(TruncDiv(intervalMs, 1000), 60)) \o <<"s">>
             ELSE alignmentPeriod
      alignmentPeriodValue == Max(durationSeconds, 60)
  IN  IF ap1 = CloudMonitoringAuto \/ ap1 = StackdriverAuto
      THEN (IF alignmentPeriodValue < 60 * 60 * 23 THEN Plus60s
            ELSE IF alignmentPeriodValue < 60 * 60 * 24 * 6 THEN Plus300s
            ELSE Plus3600s)
      ELSE ap1

calculateAlignmentPeriod(alignmentPeriod, intervalMs, durationSeconds) ==
  LET ap1 == IF alignmentPeriod = GrafanaAuto \/ alignmentPeriod = <<>>
             THEN <<"+">> \o Itoa(Max(TruncDiv(intervalMs, 1000), 60)) \o <<"s">>
             ELSE alignmentPeriod
      alignmentPeriodValue == Max(durationSeconds, 60)
  IN  IF ap1 = CloudMonitoringAuto \/ ap1 = StackdriverAuto
      THEN (IF alignmentPeriodValue < 60 * 60 * 23 THEN Plus60s
            ELSE IF alignmentPeriodValue < 60 * 60 * 24 * 6 THEN Plus300s
            ELSE Plus3600s)
      ELSE ap1

(* variant: the characters of the class are not escaped *)
RECURSIVE EscapeRegexNothing(_)
EscapeRegexNothing(s) ==
  IF s = <<>> THEN <<>> ELSE <<Head(s)>> \o EscapeRegexNothing(Tail(s))

(* the replacement function of wildcardRegexRe.ReplaceAllFunc: the matched   *)
(* character preceded by the raw-string literal `\\`, two backslashes        *)
RECURSIVE EscapeRegex(_)
EscapeRegex(s) ==
  IF s = <<>> THEN <<>>
  ELSE (IF Head(s) \in wildcardRegexRe THEN <<"\\", "\\", Head(s)>> ELSE <<Head(s)>>)
       \o EscapeRegex(Tail(s))

(* variant: the cases of one asterisk are tried before that of two, and a value *)
(* that starts with its only asterisk is a prefix                              *)
interpolateFilterWildcardsSwapped(value) ==
  LET matches == Count(value, "*")
  IN  IF matches = 2 /\ HasSuffix(value, "*") /\ HasPrefix(value, "*")
      THEN HasSubstringOpen \o ReplaceAll(value, "*", <<>>) \o CloseCall
      ELSE IF matches = 1 /\ HasPrefix(value, "*")
      THEN StartsWithOpen \o RemoveFirst(value, "*") \o CloseCall
      ELSE IF matches = 1 /\ HasSuffix(value, "*")
      THEN EndsWithOpen \o reverse(RemoveFirst(reverse(value), "*")) \o CloseCall
      ELSE IF matches # 0
      THEN FullMatchOpen \o <<"^">>
           \o ReplaceAll(ReplaceAll(EscapeRegex(value), "*", <<".", "*">>),
                         "\"", <<"\\", "\\", "\"">>)
           \o <<"$">> \o CloseCall
      ELSE value

interpolateFilterWildcards(value) ==
  LET matches == Count(value, "*")
  IN  IF matches = 2 /\ HasSuffix(value, "*") /\ HasPrefix(value, "*")
      THEN HasSubstringOpen \o ReplaceAll(value, "*", <<>>) \o CloseCall
      ELSE IF matches = 1 /\ HasPrefix(value, "*")
      THEN EndsWithOpen \o RemoveFirst(value, "*") \o CloseCall
      ELSE IF matches = 1 /\ HasSuffix(value, "*")
      THEN StartsWithOpen \o reverse(RemoveFirst(reverse(value), "*")) \o CloseCall
      ELSE IF matches # 0
      THEN FullMatchOpen \o <<"^">>
           \o ReplaceAll(ReplaceAll(EscapeRegex(value), "*", <<".", "*">>),
                         "\"", <<"\\", "\\", "\"">>)
           \o <<"$">> \o CloseCall
      ELSE value

(* the loop of buildFilterString over filterParts[i..], i counted from 0 *)
RECURSIVE FilterLoop(_, _, _)
FilterLoop(filterParts, i, filterString) ==
  IF i >= Len(filterParts) THEN filterString
  ELSE LET part == filterParts[i + 1]
           next ==
             IF part = AndToken THEN filterString \o <<" ">>
             ELSE IF i % 4 = 2
             THEN LET operator == filterParts[i]
                  IN  IF operator = <<"=", "~">> \/ operator = <<"!", "=", "~">>
                      THEN reverse(RemoveFirst(reverse(filterString), "~"))
                           \o FullMatchOpen \o part \o CloseCall
                      ELSE IF Contains(part, "*")
                      THEN filterString \o interpolateFilterWildcards(part)
                      ELSE filterString \o <<"\"">> \o part \o <<"\"">>
             ELSE filterString \o part
       IN  FilterLoop(filterParts, i + 1, next)

(* variant: the formatted string is returned as it is, without strings.Trim *)
buildFilterStringUntrimmed(metricType, filterParts) ==
  MetricTypeEq \o metricType \o <<"\"", " ">> \o FilterLoop(filterParts, 0, <<>>)

buildFilterString(metricType, filterParts) ==
  Trim(MetricTypeEq \o metricType \o <<"\"", " ">> \o FilterLoop(filterParts, 0, <<>>), " ")

buildSLOFilterExpression(q) ==
  q.SelectorName \o ProjectsSlash \o q.ProjectName \o ServicesSlash \o q.ServiceId
  \o SloSlash \o q.SloId \o CloseCall


(* toPreprocessorType: the preprocessor named in the query JSON *)
toPreprocessorType(preprocessor) ==
  IF preprocessor = "rate" THEN PreprocessorTypeRate
  ELSE IF preprocessor = "delta" THEN PreprocessorTypeDelta
  ELSE PreprocessorTypeNone

(* the reducer and aligner of the query after the two defaulting ifs *)
withAggDefaults(query) ==
  [query EXCEPT
     !.CrossSeriesReducer = IF @ = "" THEN crossSeriesReducerDefault ELSE @,
     !.PerSeriesAligner = IF @ = "" THEN perSeriesAlignerDefault ELSE @]

(* variant: the primary reducer is the user's, also without group-by fields *)
primaryCrossSeriesReducerOfUser(query) == query.CrossSeriesReducer

(* the primary cross-series reducer when a preprocessor is defined *)
primaryCrossSeriesReducer(query) ==
  IF Len(query.GroupBys) > 0 THEN query.CrossSeriesReducer ELSE crossSeriesReducerDefault

(* the primary aligner when a preprocessor is defined *)
preprocessorAligner(query) ==
  IF query.PreprocessorType = PreprocessorTypeDelta THEN "ALIGN_DELTA" ELSE "ALIGN_RATE"

(* the branch of setMetricAggParams taken when a preprocessor is defined *)
secondaryAggParams(params, query, alignmentPeriod) ==
  LET p1 == Add(params, "secondaryAggregation.alignmentPeriod", alignmentPeriod)
      p2 == Add(p1, "secondaryAggregation.crossSeriesReducer", query.CrossSeriesReducer)
      p3 == Add(p2, "secondaryAggregation.perSeriesAligner", query.PerSeriesAligner)
      p4 == Add(p3, "aggregation.crossSeriesReducer", primaryCrossSeriesReducer(query))
      p5 == Add(p4, "aggregation.perSeriesAligner", preprocessorAligner(query))
  IN  AddAll(p5, "secondaryAggregation.groupByFields", query.GroupBys)

(* variant: without a preprocessor the primary stage gets the default reducer *)
primaryAggParamsDefaultReducer(params, query) ==
  Add(Add(params, "aggregation.crossSeriesReducer", crossSeriesReducerDefault),
      "aggregation.perSeriesAligner", query.PerSeriesAligner)

(* the branch taken without a preprocessor *)
primaryAggParams(params, query) ==
  Add(Add(params, "aggregation.crossSeriesReducer", query.CrossSeriesReducer),
      "aggregation.perSeriesAligner", query.PerSeriesAligner)

setMetricAggParams(params, query0, durationSeconds, intervalMs) ==
  LET query == withAggDefaults(query0)
      alignmentPeriod ==
        calculateAlignmentPeriod(query.AlignmentPeriod, intervalMs, durationSeconds)
      p1 == IF query.PreprocessorType # PreprocessorTypeNone
            THEN secondaryAggParams(params, query, alignmentPeriod)
            ELSE primaryAggParams(params, query)
      p2 == Add(p1, "aggregation.alignmentPeriod", alignmentPeriod)
  IN  AddAll(p2, "aggregation.groupByFields", query.GroupBys)

(* variant: the mean aligner for every selector *)
setSloAggParamsMean(params, query, durationSeconds, intervalMs) ==
  Add(Add(params, "aggregation.alignmentPeriod",
          calculateAlignmentPeriod(query.AlignmentPeriod, intervalMs, durationSeconds)),
      "aggregation.perSeriesAligner", "ALIGN_MEAN")

setSloAggParams(params, query, durationSeconds, intervalMs) ==
  LET p1 == Add(params, "aggregation.alignmentPeriod",
                calculateAlignmentPeriod(query.AlignmentPeriod, intervalMs, durationSeconds))
  IN  IF query.SelectorName = SelectSloHealth
      THEN Add(p1, "aggregation.perSeriesAligner", "ALIGN_MEAN")
      ELSE Add(p1, "aggregation.perSeriesAligner", "ALIGN_NEXT_OLDER")

----------------------------------------------------------------------------
(* The state of one QueryData call.                                        *)

VARIABLES
  queries,    \* req.Queries: the batch, each query with RefID, TimeRange, Interval, JSON
  remote,     \* what the remote API and the response parser do for each query
  dsInfo,     \* the instance settings and what the credential provider answers
  pc,         \* where the call is: start, run, parse, done, panic
  path,       \* the branch QueryData took: none, annotation, gce, timeseries
  executors,  \* queryExecutors, as built by buildQueryExecutors
  idx,        \* the position of the range loop of executeTimeSeriesQuery
  queryRes,   \* the *backend.DataResponse returned by the run in progress
  dr,         \* the number of series in the cloudMonitoringResponse of that run
  resp,       \* the returned *backend.QueryDataResponse: Responses, keyed by RefID
  err,        \* the returned error, "" for nil
  runCount,   \* how often each executor's run was invoked
  legendCall, \* the arguments of a call of formatLegendKeys by a response parser
  legendKey,  \* what that call returned
  bucketCall, \* the arguments of a call of calcBucketBound by a response parser
  bucketBound, \* what that call returned
  httpRes,    \* the *http.Response given to a call of unmarshalResponse
  unmarshalled, \* what that call returned: the cloudMonitoringResponse and the error
  isLoading,  \* FolderSettingsPage: this.state.isLoading
  folderTitle, \* FolderSettingsPage: this.props.folder.title
  saveFolderCalls, \* FolderSettingsPage: the calls of onSave, each with its saveFolder promise
  deleteOrg,  \* AdminOrgsTable: the state deleteOrg, an organization or undefined
  orgsEvents, \* AdminOrgsTable: the clicks, confirms and dismissals so far, oldest first
  onDeleteCalls, \* AdminOrgsTable: the calls of props.onDelete made so far
  selectedOrg, \* AddToOrgModal: this.state.selectedOrg, an organization or null
  role,       \* AddToOrgModal: this.state.role
  picked,     \* AddToOrgModal: the organizations and roles picked so far, oldest first
  onOrgAddCalls, \* AddToOrgModal: the calls of props.onOrgAdd made so far
  modalError, \* AddToOrgModal: an event handler has thrown
  shareExternally, \* ShareExport: this.state.shareExternally
  trimDefaults, \* ShareExport: this.state.trimDefaults
  exports     \* ShareExport: the clicks on an export button, each with its pending steps

vars == <<queries, remote, dsInfo, pc, path, executors, idx, queryRes, dr, resp, err, runCount,
          legendCall, legendKey, bucketCall, bucketBound, httpRes, unmarshalled,
          isLoading, folderTitle, saveFolderCalls, deleteOrg, orgsEvents, onDeleteCalls,
          selectedOrg, role, picked, onOrgAddCalls, modalError,
          shareExternally, trimDefaults, exports>>

(* the variables of a QueryData call besides pc, and those of the other calls *)
callVars == <<queries, remote, dsInfo, path, executors, idx, queryRes, dr, resp, err, runCount>>
legendVars == <<legendCall, legendKey>>
bucketVars == <<bucketCall, bucketBound>>
unmarshalVars == <<httpRes, unmarshalled>>
backendVars == <<callVars, legendVars, bucketVars, unmarshalVars>>

(* the variables of the pages of the front end *)
folderVars == <<isLoading, folderTitle, saveFolderCalls>>
orgsVars == <<deleteOrg, orgsEvents, onDeleteCalls>>
modalVars == <<selectedOrg, role, picked, onOrgAddCalls, modalError>>
exportVars == <<shareExternally, trimDefaults, exports>>
pageVars == <<folderVars, orgsVars, modalVars, exportVars>>

outsideService == <<legendVars, bucketVars, unmarshalVars, pageVars>>
outsideLegend == <<callVars, bucketVars, unmarshalVars, pageVars>>
outsideBucket == <<callVars, legendVars, unmarshalVars, pageVars>>
outsideUnmarshal == <<callVars, legendVars, bucketVars, pageVars>>
outsideFolder == <<pc, backendVars, orgsVars, modalVars, exportVars>>
outsideOrgs == <<pc, backendVars, folderVars, modalVars, exportVars>>
outsideModal == <<pc, backendVars, folderVars, orgsVars, exportVars>>
outsideExport == <<pc, backendVars, folderVars, orgsVars, modalVars>>

(* reference ids, in the order of the alphabet *)
RefIDSeq == <<"A", "B", "C", "D", "E", "F">>
RefIDs == {"A", "B", "C"}

NoError == ""
NilResponse == "nil"
(* backend.NewQueryDataResponse(): no entry *)
NewQueryDataResponse == <<>>
(* &backend.DataResponse{} *)
NewDataResponse == [Frames |-> <<>>, Error |-> NoError]

(* time.Time in milliseconds since the epoch; Format(time.RFC3339) keeps whole seconds *)
FormatRFC3339(t) == [rfc3339 |-> t \div 1000]

(* time.Duration in microseconds; Duration.Milliseconds() *)
Milliseconds(d) == TruncDiv(d, 1000)

(* int(endTime.Sub(startTime).Seconds()) *)
DurationSeconds(timeRange) == TruncDiv(timeRange.To - timeRange.From, 1000)

ZeroTimeRange == [From |-> 0, To |-> 0]
ZeroSloQuery == [ProjectName |-> <<>>, AlignmentPeriod |-> <<>>, AliasBy |-> <<>>,
                 SelectorName |-> <<>>, ServiceId |-> <<>>, SloId |-> <<>>]

(* queryModel: the grafanaQuery read from the JSON of one query *)
queryModel(query) ==
  IF ~query.JSON.valid THEN [err |-> TRUE]
  ELSE IF ~query.JSON.hasMetricQuery
  THEN [err |-> FALSE, QueryType |-> metricQueryType,
        MetricQuery |-> query.JSON.metricQuery, SloQuery |-> ZeroSloQuery]
  ELSE [err |-> FALSE, QueryType |-> query.JSON.queryType,
        MetricQuery |-> query.JSON.metricQuery, SloQuery |-> query.JSON.sloQuery]

(* the sorted keys of url.Values.Encode *)
SortedParamKeys ==
  <<"aggregation.alignmentPeriod", "aggregation.crossSeriesReducer",
    "aggregation.groupByFields", "aggregation.perSeriesAligner", "filter",
    "interval.endTime", "interval.startTime", "secondaryAggregation.alignmentPeriod",
    "secondaryAggregation.crossSeriesReducer", "secondaryAggregation.groupByFields",
    "secondaryAggregation.perSeriesAligner", "view">>

RECURSIVE EncodeFrom(_, _)
EncodeFrom(params, k) ==
  IF k > Len(SortedParamKeys) THEN <<>>
  ELSE [j \in 1..Len(params[SortedParamKeys[k]]) |->
          <<SortedParamKeys[k], params[SortedParamKeys[k]][j]>>]
       \o EncodeFrom(params, k + 1)

(* url.Values.Encode: the key=value pairs, sorted by key *)
Encode(params) == EncodeFrom(params, 1)

(* variant: every query is built with the time range it carries itself *)
queryTimeRange(req, query) == query.TimeRange

(* the time range buildQueryExecutors gives every query: that of req.Queries[0] *)
batchTimeRange(req, query) == req[1].TimeRange

(* variant: the editor mode is not looked at *)
executorKindNoEditorMode(q) ==
  IF q.QueryType = metricQueryType THEN "filter"
  ELSE IF q.QueryType = sloQueryType THEN "slo"
  ELSE "unrecognized"

(* the switch on q.QueryType and EditorMode *)
executorKind(q) ==
  IF q.QueryType = metricQueryType
  THEN (IF q.MetricQuery.EditorMode = mqlEditorMode THEN "mql" ELSE "filter")
  ELSE IF q.QueryType = sloQueryType THEN "slo"
  ELSE "unrecognized"

(* cmtsf as first constructed *)
newTimeSeriesFilter(query) ==
  [kind |-> "filter", RefID |-> query.RefID, GroupBys |-> <<>>, AliasBy |-> <<>>,
   ProjectName |-> <<>>, Selector |-> <<>>, Service |-> <<>>, Slo |-> <<>>,
   Params |-> EmptyValues, Target |-> <<>>,
   Query |-> <<>>, IntervalMS |-> 0, timeRange |-> ZeroTimeRange]

(* one iteration of the loop of buildQueryExecutors, for a recognised query *)
buildExecutor(req, query, q) ==
  LET timeRange == batchTimeRange(req, query)
      durationSeconds == DurationSeconds(timeRange)
      intervalMs == Milliseconds(query.Interval)
      mq == [q.MetricQuery EXCEPT
               !.PreprocessorType = toPreprocessorType(q.MetricQuery.Preprocessor)]
      params == Add(Add(EmptyValues, "interval.startTime", FormatRFC3339(timeRange.From)),
                    "interval.endTime", FormatRFC3339(timeRange.To))
      cmtsf == newTimeSeriesFilter(query)
      kind == executorKind(q)
  IN  IF kind = "mql"
      THEN [cmtsf EXCEPT !.kind = "mql", !.ProjectName = mq.ProjectName,
                         !.Query = mq.Query, !.IntervalMS = intervalMs,
                         !.AliasBy = mq.AliasBy, !.timeRange = timeRange]
      ELSE IF kind = "filter"
      THEN LET view == IF mq.View = "" THEN "FULL" ELSE mq.View
               p1 == Add(params, "filter", buildFilterString(mq.MetricType, mq.Filters))
               p2 == Add(p1, "view", view)
               p3 == setMetricAggParams(p2, mq, durationSeconds, intervalMs)
           IN  [cmtsf EXCEPT !.AliasBy = mq.AliasBy, !.ProjectName = mq.ProjectName,
                             !.GroupBys = mq.GroupBys,
                             !.Target = Encode(p3), !.Params = p3]
      ELSE LET p1 == Add(params, "filter", buildSLOFilterExpression(q.SloQuery))
               p2 == setSloAggParams(p1, q.SloQuery, durationSeconds, intervalMs)
           IN  [cmtsf EXCEPT !.kind = "slo", !.AliasBy = q.SloQuery.AliasBy,
                             !.ProjectName = q.SloQuery.ProjectName,
                             !.Selector = q.SloQuery.SelectorName,
                             !.Service = q.SloQuery.ServiceId, !.Slo = q.SloQuery.SloId,
                             !.Target = Encode(p2), !.Params = p2]

(* the loop of buildQueryExecutors from query i on: it ends with the executors, *)
(* with the error of queryModel, or in the panic of the default case            *)
RECURSIVE buildLoop(_, _, _)
buildLoop(req, i, built) ==
  IF i > Len(req) THEN [status |-> "ok", executors |-> built]
  ELSE LET q == queryModel(req[i])
       IN  IF q.err THEN [status |-> "error", executors |-> <<>>]
           ELSE IF executorKind(q) = "unrecognized"
           THEN [status |-> "panic", executors |-> <<>>]
           ELSE buildLoop(req, i + 1, Append(built, buildExecutor(req, req[i], q)))

buildQueryExecutors(req) == buildLoop(req, 1, <<>>)

----------------------------------------------------------------------------
(* The executors and the collaborators of the service.                     *)

Min(a, b) == IF a <= b THEN a ELSE b

(* the frames made from the first n series of the response to a query: each *)
(* frame carries the reference id of its query                               *)
FramesOf(refID, n) == [k \in 1..n |-> [RefID |-> refID, series |-> k]]

(* run of an executor: a remote failure (non-2xx status, transport error,   *)
(* unparseable body) is attached to the query's DataResponse               *)
run(i) ==
  LET outcome == remote[i].run
  IN  IF outcome = "ok"
      THEN [queryRes |-> NewDataResponse, dr |-> 1, err |-> NoError]
      ELSE IF outcome = "error"
      THEN [queryRes |-> NewDataResponse, dr |-> 0, err |-> "run failed"]
      ELSE [queryRes |-> [NewDataResponse EXCEPT !.Error = outcome], dr |-> 0,
            err |-> NoError]

(* parseResponse of an executor: the frames of the series, or an error with *)
(* the frames produced before it                                            *)
parseResponse(i, res, series) ==
  IF remote[i].parse = "ok"
  THEN [queryRes |-> [res EXCEPT !.Frames = FramesOf(executors[i].RefID, series)],
        err |-> NoError]
  ELSE [queryRes |-> [res EXCEPT !.Frames = FramesOf(executors[i].RefID,
                                                     Min(series, remote[i].partial))],
        err |-> "parse failed"]

(* variant: the project of the instance settings, whatever the authentication type *)
getDefaultProjectOfSettings(info) == [project |-> info.defaultProject, err |-> NoError]

(* getDefaultProject *)
getDefaultProject(info) ==
  IF info.authenticationType = "gce"
  THEN (IF info.gce = "ok" THEN [project |-> info.gceProjectID, err |-> NoError]
        ELSE [project |-> <<>>, err |-> info.gce])
  ELSE [project |-> info.defaultProject, err |-> NoError]

(* variant: the entry is stored under its position in the order of completion *)
SetResponseByOrder(responses, refID, res) ==
  (RefIDSeq[Cardinality(DOMAIN responses) + 1] :> res) @@ responses

(* resp.Responses[refID] = res *)
SetResponse(responses, refID, res) == (refID :> res) @@ responses

(* variant: a result whose parseResponse failed is not stored *)
recordResultSkipFailed(responses, executor, res, parseErr) ==
  IF parseErr # NoError THEN responses ELSE (executor.RefID :> res) @@ responses

(* lines 243-248: the error of parseResponse is attached, the result is stored *)
recordResult(responses, executor, res, parseErr) ==
  SetResponse(responses, executor.RefID,
              IF parseErr # NoError THEN [res EXCEPT !.Error = parseErr] ELSE res)

(* variant: a run that returns an error gives back a response without entries *)
responseOfFailedRunEmpty(responses) == NewQueryDataResponse

(* line 241: the error of a run is returned with the response built so far *)
responseOfFailedRun(responses) == responses

(* variant: the loop ends at the first result that carries an error *)
nextExecutorStopOnError(i, res) ==
  IF res.Error # NoError THEN Len(executors) + 1 ELSE i + 1

(* variant: an executor whose remote call failed is run again *)
nextExecutorRetry(i, res) == IF res.Error # NoError THEN i ELSE i + 1

(* the range loop moves on to the next executor *)
nextExecutor(i, res) == i + 1

----------------------------------------------------------------------------
(* The legend formatter.                                                   *)

(* \s of the regular expressions *)
Whitespace == {" ", "\t", "\n", "\f", "\r"}

(* \w of the regular expressions *)
WordChars ==
  {"0", "1", "2", "3", "4", "5", "6", "7", "8", "9", "A", "B", "C", "D", "E",
  "F", "G", "H", "I", "J", "K", "L", "M", "N", "O", "P", "Q", "R", "S", "T",
  "U", "V", "W", "X", "Y", "Z", "a", "b", "c", "d", "e", "f", "g", "h", "i",
  "j", "k", "l", "m", "n", "o", "p", "q", "r", "s", "t", "u", "v", "w", "x",
  "y", "z", "_"}

OpenBraces == <<"{", "{">>
CloseBraces == <<"}", "}">>
MetricTypeKey == <<"m", "e", "t", "r", "i", "c", ".", "t", "y", "p", "e">>
MetricNameKey == <<"m", "e", "t", "r", "i", "c", ".", "n", "a", "m", "e">>
MetricServiceKey == <<"m", "e", "t", "r", "i", "c", ".", "s", "e", "r", "v", "i", "c", "e">>
ProjectKey == <<"p", "r", "o", "j", "e", "c", "t">>
ServiceKey == <<"s", "e", "r", "v", "i", "c", "e">>
SloKey == <<"s", "l", "o">>
SelectorKey == <<"s", "e", "l", "e", "c", "t", "o", "r">>
DotGoogleapisComSlash == <<".", "g", "o", "o", "g", "l", "e", "a", "p", "i", "s", ".", "c", "o", "m", "/">>
DotIoSlash == <<".", "i", "o", "/">>

(* the literal lit stands in s at position p *)
IsAt(s, p, lit) == p + Len(lit) - 1 <= Len(s) /\ SubSeq(s, p, p + Len(lit) - 1) = lit

(* the end of the longest run of characters of class that starts at p: the *)
(* position after it                                                       *)
RunEnd(s, p, class) ==
  CHOOSE q \in p..(Len(s) + 1) :
     /\ \A k \in p..(q - 1) : s[k] \in class
     /\ q <= Len(s) => s[q] \notin class

Least(S) == CHOOSE x \in S : \A y \in S : x <= y
Greatest(S) == CHOOSE x \in S : \A y \in S : x >= y

(* strings.Replace(s, lit, "", 1) *)
RemoveFirstLiteral(s, lit) ==
  LET at == {p \in 1..Len(s) : IsAt(s, p, lit)}
  IN  IF at = {} THEN s
      ELSE SubSeq(s, 1, Least(at) - 1) \o SubSeq(s, Least(at) + Len(lit), Len(s))

(* strings.TrimSpace *)
TrimSpace(s) ==
  LET inked == {p \in 1..Len(s) : s[p] \notin Whitespace}
  IN  IF inked = {} THEN <<>> ELSE SubSeq(s, Least(inked), Greatest(inked))

(* legendKeyFormat, \{\{\s*(.+?)\s*\}\}, tried at position p of s with k  *)
(* characters taken by the first \s*: the positions after the group (.+?)  *)
(* from which \s*\}\} matches                                              *)
legendKeyEnds(s, p, k) ==
  {e \in (p + 3 + k)..Len(s) :
     /\ \A j \in (p + 2 + k)..(e - 1) : s[j] # "\n"
     /\ IsAt(s, RunEnd(s, e, Whitespace), CloseBraces)}

(* the match of legendKeyFormat that starts at p: the greedy \s* takes the *)
(* most it can, the lazy group the least                                  *)
legendKeyFormat(s, p) ==
  IF ~IsAt(s, p, OpenBraces) THEN [found |-> FALSE]
  ELSE LET taken == {k \in 0..(RunEnd(s, p + 2, Whitespace) - (p + 2)) :
                        legendKeyEnds(s, p, k) # {}}
       IN  IF taken = {} THEN [found |-> FALSE]
           ELSE LET e == Least(legendKeyEnds(s, p, Greatest(taken)))
                IN  [found |-> TRUE, last |-> RunEnd(s, e, Whitespace) + 1]

(* metricNameFormat, ([\w\d_]+)\.(googleapis\.com|io)/(.+), matched at the *)
(* word that starts at p                                                   *)
metricNameAt(s, p) ==
  LET r == RunEnd(s, p, WordChars)
      t == IF IsAt(s, r, DotGoogleapisComSlash) THEN r + Len(DotGoogleapisComSlash)
           ELSE IF IsAt(s, r, DotIoSlash) THEN r + Len(DotIoSlash)
           ELSE 0
  IN  IF r > p /\ t > 0 /\ t <= Len(s) /\ s[t] # "\n"
      THEN [found |-> TRUE, service |-> SubSeq(s, p, r - 1),
            name |-> SubSeq(s, t, RunEnd(s, t, {s[j] : j \in 1..Len(s)} \ {"\n"}) - 1)]
      ELSE [found |-> FALSE]

(* metricNameFormat.FindStringSubmatch: the leftmost match *)
FindStringSubmatch(s) ==
  LET starts == {p \in 1..Len(s) : metricNameAt(s, p).found}
  IN  IF starts = {} THEN [found |-> FALSE] ELSE metricNameAt(s, Least(starts))

(* replaceWithMetricPart; nil is [nil |-> TRUE] *)
replaceWithMetricPart(metaPartName, metricType) ==
  LET shortMatch == FindStringSubmatch(metricType)
  IN  IF metaPartName = MetricNameKey /\ shortMatch.found
      THEN [nil |-> FALSE, part |-> shortMatch.name]
      ELSE IF metaPartName = MetricServiceKey /\ shortMatch.found
      THEN [nil |-> FALSE, part |-> shortMatch.service]
      ELSE [nil |-> TRUE]

(* variant: the additional label map is looked up before the primary one *)
legendKeyOfAdditionalFirst(in, metricType, labels, additionalLabels, query) ==
  LET metaPartName == TrimSpace(RemoveFirstLiteral(RemoveFirstLiteral(in, OpenBraces),
                                                   CloseBraces))
      metricPart == replaceWithMetricPart(metaPartName, metricType)
  IN  IF metaPartName = MetricTypeKey THEN metricType
      ELSE IF ~metricPart.nil THEN metricPart.part
      ELSE IF metaPartName \in DOMAIN additionalLabels THEN additionalLabels[metaPartName]
      ELSE IF metaPartName \in DOMAIN labels THEN labels[metaPartName]
      ELSE IF metaPartName = ProjectKey /\ query.ProjectName # <<>> THEN query.ProjectName
      ELSE IF metaPartName = ServiceKey /\ query.Service # <<>> THEN query.Service
      ELSE IF metaPartName = SloKey /\ query.Slo # <<>> THEN query.Slo
      ELSE IF metaPartName = SelectorKey /\ query.Selector # <<>> THEN query.Selector
      ELSE in

(* the function given to legendKeyFormat.ReplaceAllFunc *)
legendKeyOf(in, metricType, labels, additionalLabels, query) ==
  LET metaPartName == TrimSpace(RemoveFirstLiteral(RemoveFirstLiteral(in, OpenBraces),
                                                   CloseBraces))
      metricPart == replaceWithMetricPart(metaPartName, metricType)
  IN  IF metaPartName = MetricTypeKey THEN metricType
      ELSE IF ~metricPart.nil THEN metricPart.part
      ELSE IF metaPartName \in DOMAIN labels THEN labels[metaPartName]
      ELSE IF metaPartName \in DOMAIN additionalLabels THEN additionalLabels[metaPartName]
      ELSE IF metaPartName = ProjectKey /\ query.ProjectName # <<>> THEN query.ProjectName
      ELSE IF metaPartName = ServiceKey /\ query.Service # <<>> THEN query.Service
      ELSE IF metaPartName = SloKey /\ query.Slo # <<>> THEN query.Slo
      ELSE IF metaPartName = SelectorKey /\ query.Selector # <<>> THEN query.Selector
      ELSE in

(* legendKeyFormat.ReplaceAllFunc from position p of the alias on *)
RECURSIVE ReplaceAllFunc(_, _, _, _, _, _)
ReplaceAllFunc(s, p, metricType, labels, additionalLabels, query) ==
  IF p > Len(s) THEN <<>>
  ELSE LET m == legendKeyFormat(s, p)
       IN  IF m.found
           THEN legendKeyOf(SubSeq(s, p, m.last), metricType, labels, additionalLabels,
                            query)
                \o ReplaceAllFunc(s, m.last + 1, metricType, labels, additionalLabels,
                                  query)
           ELSE <<s[p]>>
                \o ReplaceAllFunc(s, p + 1, metricType, labels, additionalLabels, query)

(* variant: the alias template is used also when it is empty *)
formatLegendKeysWithoutDefault(metricType, defaultMetricName, labels, additionalLabels, query) ==
  ReplaceAllFunc(query.AliasBy, 1, metricType, labels, additionalLabels, query)

formatLegendKeys(metricType, defaultMetricName, labels, additionalLabels, query) ==
  IF query.AliasBy = <<>> THEN defaultMetricName
  ELSE ReplaceAllFunc(query.AliasBy, 1, metricType, labels, additionalLabels, query)

----------------------------------------------------------------------------
(* The bucket bounds of a distribution.                                    *)

(* A float64 is written as the number of its quarters: q stands for q/4.   *)
(* The values used are small multiples of 1/4, on which the float          *)
(* operations of the code are exact.                                       *)
Quarter == 4

RECURSIVE Power(_, _)
Power(x, k) == IF k = 0 THEN 1 ELSE x * Power(x, k - 1)

(* strconv.FormatInt(i, 10) *)
FormatInt(i) == Itoa(i)

(* int64(scale * math.Pow(growthFactor, float64(k))): the conversion truncates *)
ScaledPower(scale, growthFactor, k) ==
  TruncDiv(scale * Power(growthFactor, k), Power(Quarter, k + 1))

RECURSIVE StripZeros(_)
StripZeros(s) ==
  IF s # <<>> /\ s[Len(s)] = "0" THEN StripZeros(SubSeq(s, 1, Len(s) - 1)) ELSE s

FractionDigits(r) ==
  CASE r = 0 -> <<>> [] r = 1 -> <<"2", "5">> [] r = 2 -> <<"5">> [] r = 3 -> <<"7", "5">>

(* fmt.Sprintf("%g", f): the shortest digits of f, in the form d.ddde+XX when *)
(* the decimal exponent is 6 or more (none of the values is below 1e-4)       *)
FormatG(f) ==
  LET a == IF f < 0 THEN -f ELSE f
      sign == IF f < 0 THEN <<"-">> ELSE <<>>
      whole == ItoaNat(a \div Quarter)
      fraction == FractionDigits(a % Quarter)
      digits == StripZeros(whole \o fraction)
      exp == Len(whole) - 1
  IN  IF exp >= 6
      THEN sign \o <<digits[1]>>
           \o (IF Len(digits) > 1 THEN <<".">> \o Tail(digits) ELSE <<>>)
           \o <<"e", "+">> \o (IF exp < 10 THEN <<"0">> ELSE <<>>) \o ItoaNat(exp)
      ELSE sign \o whole \o (IF fraction = <<>> THEN <<>> ELSE <<".">> \o fraction)

(* a nil pointer to a bucket description *)
NilBuckets == [nil |-> TRUE]

(* calcBucketBound panics: Bounds[n] of the explicit buckets is out of range *)
calcBucketBoundPanics(bucketOptions, n) ==
  /\ n # 0
  /\ bucketOptions.LinearBuckets.nil
  /\ bucketOptions.ExponentialBuckets.nil
  /\ ~bucketOptions.ExplicitBuckets.nil
  /\ ~(n >= 0 /\ n < Len(bucketOptions.ExplicitBuckets.Bounds))

(* variant: the linear bound of index n is offset + width * n *)
calcBucketBoundUpper(bucketOptions, n) ==
  IF n = 0 THEN <<"0">>
  ELSE IF ~bucketOptions.LinearBuckets.nil
  THEN FormatInt(bucketOptions.LinearBuckets.Offset
                 + bucketOptions.LinearBuckets.Width * n)
  ELSE IF ~bucketOptions.ExponentialBuckets.nil
  THEN FormatInt(ScaledPower(bucketOptions.ExponentialBuckets.Scale,
                             bucketOptions.ExponentialBuckets.GrowthFactor, n - 1))
  ELSE IF ~bucketOptions.ExplicitBuckets.nil
  THEN FormatG(bucketOptions.ExplicitBuckets.Bounds[n + 1])
  ELSE <<"0">>

(* Bounds[n] of the code is the element n + 1 of the sequence *)
calcBucketBound(bucketOptions, n) ==
  IF n = 0 THEN <<"0">>
  ELSE IF ~bucketOptions.LinearBuckets.nil
  THEN FormatInt(bucketOptions.LinearBuckets.Offset
                 + bucketOptions.LinearBuckets.Width * (n - 1))
  ELSE IF ~bucketOptions.ExponentialBuckets.nil
  THEN FormatInt(ScaledPower(bucketOptions.ExponentialBuckets.Scale,
                             bucketOptions.ExponentialBuckets.GrowthFactor, n - 1))
  ELSE IF ~bucketOptions.ExplicitBuckets.nil
  THEN FormatG(bucketOptions.ExplicitBuckets.Bounds[n + 1])
  ELSE <<"0">>

----------------------------------------------------------------------------
(* The response of the remote API.                                         *)

(* cloudMonitoringResponse{}: no series *)
EmptyResponse == [TimeSeries |-> <<>>]

(* A body is the JSON text it holds, described by its syntax (well-formed   *)
(* or not), the kind of its top-level value, and the value of the member    *)
(* timeSeries of a top-level object: absent, null, a string, or an array    *)
(* whose elements are objects ("series") or values of another type ("bad"). *)
(* json.Unmarshal of the body into a cloudMonitoringResponse: a syntax      *)
(* error, or a value of the wrong type at the top or under timeSeries, is   *)
(* an error; members the struct does not name are skipped, null leaves the  *)
(* value as it is. After a type error the decoding goes on, so data may be  *)
(* filled in part when the error is returned.                               *)
jsonUnmarshal(body) ==
  IF ~body.wellFormed THEN [err |-> "syntax", data |-> EmptyResponse]
  ELSE IF body.top = "null" THEN [err |-> NoError, data |-> EmptyResponse]
  ELSE IF body.top # "object" THEN [err |-> "type", data |-> EmptyResponse]
  ELSE IF body.timeSeries.kind \in {"absent", "null"}
  THEN [err |-> NoError, data |-> EmptyResponse]
  ELSE IF body.timeSeries.kind # "array" THEN [err |-> "type", data |-> EmptyResponse]
  ELSE [err |-> IF \E k \in 1..Len(body.timeSeries.elems) :
                      body.timeSeries.elems[k] # "series"
                THEN "type" ELSE NoError,
        data |-> [TimeSeries |->
                    [k \in 1..Len(body.timeSeries.elems) |->
                       IF body.timeSeries.elems[k] = "series" THEN k ELSE 0]]]

(* variant: the status of the response is not looked at *)
unmarshalResponseAnyStatus(res) ==
  IF ~res.Body.readable THEN [data |-> EmptyResponse, err |-> "read"]
  ELSE LET u == jsonUnmarshal(res.Body)
       IN  IF u.err # NoError
           THEN [data |-> EmptyResponse, err |-> "failed to unmarshal query response"]
           ELSE [data |-> u.data, err |-> NoError]

unmarshalResponse(res) ==
  IF ~res.Body.readable THEN [data |-> EmptyResponse, err |-> "read"]
  ELSE IF TruncDiv(res.StatusCode, 100) # 2
  THEN [data |-> EmptyResponse, err |-> "query failed"]
  ELSE LET u == jsonUnmarshal(res.Body)
       IN  IF u.err # NoError
           THEN [data |-> EmptyResponse, err |-> "failed to unmarshal query response"]
           ELSE [data |-> u.data, err |-> NoError]

----------------------------------------------------------------------------
(* The batches QueryData is called with.                                   *)

MaxQueries == 3
MaxClassified == 2
MaxValueLen == 3
MaxFilterGroups == 2
MaxPlaceholders == 2
MaxBucketIndex == 4
MaxBoundaries == 3
MaxSeries == 2
MaxSaves == 3
MaxEvents == 4
MaxPicks == 3
MaxAdds == 2
MaxExports == 2

BaseMetricQuery ==
  [ProjectName |-> <<"p">>, MetricType |-> <<"m">>, CrossSeriesReducer |-> "REDUCE_SUM",
   AlignmentPeriod |-> GrafanaAuto, PerSeriesAligner |-> "ALIGN_MAX", GroupBys |-> <<>>,
   Filters |-> <<>>, AliasBy |-> <<>>, View |-> "", EditorMode |-> "", Query |-> <<>>,
   Preprocessor |-> "", PreprocessorType |-> PreprocessorTypeNone]

BaseSloQuery ==
  [ProjectName |-> <<"p">>, AlignmentPeriod |-> GrafanaAuto, AliasBy |-> <<>>,
   SelectorName |-> SelectSloHealth, ServiceId |-> <<"s">>, SloId |-> <<"o">>]

BaseJSON ==
  [valid |-> TRUE, type |-> "timeSeriesQuery", queryType |-> metricQueryType,
   hasMetricQuery |-> TRUE, metricQuery |-> BaseMetricQuery, sloQuery |-> BaseSloQuery]

BaseQuery(refID) ==
  [RefID |-> refID, TimeRange |-> [From |-> 0, To |-> 3600000], Interval |-> 15000000,
   JSON |-> BaseJSON]

BaseDsInfo ==
  [instance |-> "ok", authenticationType |-> "jwt", defaultProject |-> <<"p">>,
   gce |-> "ok", gceProjectID |-> <<"g">>]

OkOutcome == [run |-> "ok", parse |-> "ok", partial |-> 0]

(* what can happen to one query: the run returns a response, reports a      *)
(* remote failure, or returns an error; the parser succeeds or fails         *)
Outcomes ==
  {[run |-> "ok", parse |-> p, partial |-> k] :
     <<p, k>> \in {<<"ok", 0>>, <<"fail", 0>>, <<"fail", 1>>}}
  \cup {[run |-> r, parse |-> p, partial |-> 0] :
     r \in {"non2xx", "transport", "unparseable"}, p \in {"ok", "fail"}}
  \cup {[run |-> "error", parse |-> "ok", partial |-> 0]}

Input(qs, rm, info) ==
  /\ queries = qs
  /\ remote = rm
  /\ dsInfo = info

(* batches of valid metric queries: every outcome of every query *)
ExecBatches ==
  \E n \in 0..MaxQueries : \E rm \in [1..n -> Outcomes] :
     Input([i \in 1..n |-> BaseQuery(RefIDSeq[i])], rm, BaseDsInfo)

(* batches of valid metric queries: every assignment of reference ids *)
RefIDBatches ==
  \E n \in 1..MaxQueries : \E f \in [1..n -> RefIDs] :
     \E rm \in [1..n -> {OkOutcome, [OkOutcome EXCEPT !.run = "non2xx"]}] :
        Input([i \in 1..n |-> BaseQuery(f[i])], rm, BaseDsInfo)

(* batches that differ in what the JSON of each query declares *)
Classes ==
  [valid : {TRUE}, queryType : {"", metricQueryType, sloQueryType, "traces"},
   hasMetricQuery : BOOLEAN, editorMode : {"", mqlEditorMode}]
  \cup {[valid |-> FALSE, queryType |-> "", hasMetricQuery |-> FALSE, editorMode |-> ""]}

ClassifiedQuery(refID, c) ==
  [BaseQuery(refID) EXCEPT
     !.JSON.valid = c.valid, !.JSON.queryType = c.queryType,
     !.JSON.hasMetricQuery = c.hasMetricQuery,
     !.JSON.metricQuery.EditorMode = c.editorMode]

ClassBatches ==
  \E n \in 1..MaxClassified : \E c \in [1..n -> Classes] :
     Input([i \in 1..n |-> ClassifiedQuery(RefIDSeq[i], c[i])],
           [i \in 1..n |-> OkOutcome], BaseDsInfo)

(* batches that differ in the type of the first query and in the instance *)
TopTypes == {"", "timeSeriesQuery", "annotationQuery", "getGCEDefaultProject", "traces"}

DsInfos ==
  {[BaseDsInfo EXCEPT !.instance = "error"]}
  \cup {[BaseDsInfo EXCEPT !.authenticationType = "gce", !.gce = g] :
          g \in {"ok", "no credentials", "no token", "invalid token"}}
  \cup {BaseDsInfo}

TopBatches ==
  \E n \in 1..MaxClassified : \E t \in TopTypes :
     \E u \in {"timeSeriesQuery", "getGCEDefaultProject"} : \E info \in DsInfos :
        Input([i \in 1..n |->
                 IF i = 1 THEN [BaseQuery(RefIDSeq[i]) EXCEPT !.JSON.type = t]
                 ELSE [BaseQuery(RefIDSeq[i]) EXCEPT !.JSON.type = u]],
              [i \in 1..n |-> OkOutcome], info)

(* batches that differ in the time range, interval and alignment of each query *)
Samplings ==
  {[Interval |-> 15000000, AlignmentPeriod |-> GrafanaAuto],
   [Interval |-> 120000500, AlignmentPeriod |-> GrafanaAuto],
   [Interval |-> 15000000, AlignmentPeriod |-> StackdriverAuto]}

TimeShapes ==
  [TimeRange : {[From |-> 1500, To |-> 3601700], [From |-> 86400000, To |-> 176400000]},
   sampling : Samplings,
   kind : {"filter", "mql", "slo"}]

TimedQuery(refID, t) ==
  [BaseQuery(refID) EXCEPT
     !.TimeRange = t.TimeRange, !.Interval = t.sampling.Interval,
     !.JSON.queryType = IF t.kind = "slo" THEN sloQueryType ELSE metricQueryType,
     !.JSON.metricQuery.EditorMode = IF t.kind = "mql" THEN mqlEditorMode ELSE "",
     !.JSON.metricQuery.AlignmentPeriod = t.sampling.AlignmentPeriod,
     !.JSON.sloQuery.AlignmentPeriod = t.sampling.AlignmentPeriod]

TimeBatches ==
  \E n \in 1..MaxClassified : \E t \in [1..n -> TimeShapes] :
     Input([i \in 1..n |-> TimedQuery(RefIDSeq[i], t[i])],
           [i \in 1..n |-> OkOutcome], BaseDsInfo)

(* single metric filter queries that differ in their aggregation settings *)
AggShapes ==
  [Preprocessor : {"", "none", "rate", "delta"},
   GroupBys : {<<>>, <<<<"z">>>>, <<<<"z">>, <<"r">>>>},
   CrossSeriesReducer : {"", "REDUCE_SUM", "REDUCE_MEAN"},
   PerSeriesAligner : {"", "ALIGN_MAX"},
   hasMetricQuery : BOOLEAN]

AggQuery(refID, a) ==
  [BaseQuery(refID) EXCEPT
     !.JSON.hasMetricQuery = a.hasMetricQuery,
     !.JSON.metricQuery.Preprocessor = a.Preprocessor,
     !.JSON.metricQuery.GroupBys = a.GroupBys,
     !.JSON.metricQuery.CrossSeriesReducer = a.CrossSeriesReducer,
     !.JSON.metricQuery.PerSeriesAligner = a.PerSeriesAligner,
     !.JSON.metricQuery.Filters = <<<<"z">>, <<"=">>, <<"u", "*">>>>]

AggBatches ==
  \E a \in AggShapes : Input(<<AggQuery("A", a)>>, <<OkOutcome>>, BaseDsInfo)

(* single SLO queries that differ in their selector name *)
SelectSloBurnRate == <<"s", "e", "l", "e", "c", "t", "_", "s", "l", "o", "_", "b", "u", "r", "n", "_", "r", "a", "t", "e">>
SelectSloCompliance == <<"s", "e", "l", "e", "c", "t", "_", "s", "l", "o", "_", "c", "o", "m", "p", "l", "i", "a", "n", "c", "e">>
SelectSloHealthUpper == <<"S", "E", "L", "E", "C", "T", "_", "S", "L", "O", "_", "H", "E", "A", "L", "T", "H">>

SloSelectors ==
  {SelectSloHealth, SelectSloBurnRate, SelectSloCompliance, SelectSloHealthUpper, <<>>,
   SelectSloHealth \o <<" ">>}

SloShapedQuery(refID, selector, alignmentPeriod) ==
  [BaseQuery(refID) EXCEPT
     !.JSON.queryType = sloQueryType,
     !.JSON.sloQuery.SelectorName = selector,
     !.JSON.sloQuery.AlignmentPeriod = alignmentPeriod]

SloBatches ==
  \E selector \in SloSelectors : \E alignmentPeriod \in {GrafanaAuto, StackdriverAuto} :
     Input(<<SloShapedQuery("A", selector, alignmentPeriod)>>, <<OkOutcome>>, BaseDsInfo)

(* single queries that differ in the alignment-period specifier, the interval *)
(* (microseconds) and the time range (milliseconds)                           *)
Plus120s == <<"+", "1", "2", "0", "s">>
GrafanaAut == <<"g", "r", "a", "f", "a", "n", "a", "-", "a", "u", "t">>
StackdriverAutoUpper == <<"S", "t", "a", "c", "k", "d", "r", "i", "v", "e", "r", "-", "a", "u", "t", "o">>

AlignmentPeriods ==
  {GrafanaAuto, <<>>, StackdriverAuto, CloudMonitoringAuto, Plus120s, GrafanaAut,
   StackdriverAutoUpper}

AlignIntervals ==
  {0, 999, 15000000, 59999999, 60000000, 60999999, 61000000, 120000500, 2000000000}

AlignRanges ==
  {[From |-> 0, To |-> t] :
     t \in {0, 59000, 61000, 3600000, 82799999, 82800000, 90000000, 518399999,
            518400000, 600000000}}
  \cup {[From |-> 5000, To |-> 0]}

AlignedQuery(refID, kind, alignmentPeriod, interval, timeRange) ==
  [BaseQuery(refID) EXCEPT
     !.TimeRange = timeRange, !.Interval = interval,
     !.JSON.queryType = IF kind = "slo" THEN sloQueryType ELSE metricQueryType,
     !.JSON.metricQuery.AlignmentPeriod = alignmentPeriod,
     !.JSON.sloQuery.AlignmentPeriod = alignmentPeriod]

AlignBatches ==
  \E alignmentPeriod \in AlignmentPeriods : \E interval \in AlignIntervals :
     \E timeRange \in AlignRanges :
        \/ Input(<<AlignedQuery("A", "filter", alignmentPeriod, interval, timeRange)>>,
                 <<OkOutcome>>, BaseDsInfo)
        \/ /\ interval = 15000000
           /\ Input(<<AlignedQuery("A", "slo", alignmentPeriod, interval, timeRange)>>,
                    <<OkOutcome>>, BaseDsInfo)

(* single metric filter queries that differ in their filter tokens: one group *)
(* with every value of up to MaxValueLen characters, or the word AND, under    *)
(* every operator                                                              *)
FilterValueChars == {"a", "*", ".", "\"", "\\"}

FilterOperators == {<<"=">>, <<"!", "=">>, <<"=", "~">>, <<"!", "=", "~">>}

FilteredQuery(refID, metricType, filters) ==
  [BaseQuery(refID) EXCEPT
     !.JSON.metricQuery.MetricType = metricType,
     !.JSON.metricQuery.Filters = filters]

ValueBatches ==
  \E n \in 0..MaxValueLen : \E value \in [1..n -> FilterValueChars] \cup {AndToken} :
     \E operator \in FilterOperators :
        Input(<<FilteredQuery("A", <<"m">>, <<<<"k">>, operator, value>>)>>,
              <<OkOutcome>>, BaseDsInfo)

(* up to MaxFilterGroups groups joined by AND, for several metric types *)
GroupKeys == <<<<"k">>, <<"z">>, <<"r">>, <<"u">>>>

GroupShapes ==
  [operator : {<<"=">>, <<"=", "~">>},
   value : {<<"a", "~">>, <<"*", "a">>, <<"a", "*", "a">>, AndToken}]

RECURSIVE FilterTokens(_, _)
FilterTokens(shapes, g) ==
  IF g > Len(shapes) THEN <<>>
  ELSE (IF g > 1 THEN <<AndToken>> ELSE <<>>)
       \o <<GroupKeys[g], shapes[g].operator, shapes[g].value>>
       \o FilterTokens(shapes, g + 1)

GroupBatches ==
  \E n \in 0..MaxFilterGroups : \E shapes \in [1..n -> GroupShapes] :
     \E metricType \in {<<"m">>, <<>>, <<"m", " ">>} :
        Input(<<FilteredQuery("A", metricType, FilterTokens(shapes, 1))>>,
              <<OkOutcome>>, BaseDsInfo)

(* no response parser is at work *)
NoLegendCall == [called |-> FALSE]
NoBucketCall == [called |-> FALSE]
NoHTTPResponse == [called |-> FALSE]
NotUnmarshalled == [returned |-> FALSE]

(* no QueryData call, no call of formatLegendKeys, no call of calcBucketBound *)
ServiceIdle ==
  /\ queries = <<>>
  /\ remote = <<>>
  /\ dsInfo = BaseDsInfo
  /\ path = "none"
  /\ executors = <<>>
  /\ idx = 0
  /\ queryRes = NewDataResponse
  /\ dr = 0
  /\ resp = NewQueryDataResponse
  /\ err = NoError
  /\ runCount = <<>>
LegendIdle == legendCall = NoLegendCall /\ legendKey = <<>>
BucketIdle == bucketCall = NoBucketCall /\ bucketBound = <<>>
UnmarshalIdle == httpRes = NoHTTPResponse /\ unmarshalled = NotUnmarshalled

(* undefined and null of the front end, and the role of an organization user *)
Undefined == [undefined |-> TRUE]
Null == [null |-> TRUE]
OrgRoleAdmin == "Admin"

(* the pages of the front end as they are constructed *)
FolderIdle == isLoading = FALSE /\ folderTitle = "" /\ saveFolderCalls = <<>>
OrgsIdle == deleteOrg = Undefined /\ orgsEvents = <<>> /\ onDeleteCalls = <<>>
ModalIdle ==
  /\ selectedOrg = Null
  /\ role = OrgRoleAdmin
  /\ picked = <<>>
  /\ onOrgAddCalls = <<>>
  /\ modalError = FALSE
ExportIdle == shareExternally = FALSE /\ trimDefaults = FALSE /\ exports = <<>>
PagesIdle == FolderIdle /\ OrgsIdle /\ ModalIdle /\ ExportIdle
BackendIdle == ServiceIdle /\ LegendIdle /\ BucketIdle /\ UnmarshalIdle

Init ==
  /\ \/ ExecBatches
     \/ RefIDBatches
     \/ ClassBatches
     \/ TopBatches
     \/ TimeBatches
     \/ AggBatches
     \/ SloBatches
     \/ AlignBatches
     \/ ValueBatches
     \/ GroupBatches
  /\ pc = "start"
  /\ path = "none"
  /\ executors = <<>>
  /\ idx = 0
  /\ queryRes = NewDataResponse
  /\ dr = 0
  /\ resp = NewQueryDataResponse
  /\ err = NoError
  /\ runCount = <<>>
  /\ LegendIdle
  /\ BucketIdle
  /\ UnmarshalIdle
  /\ PagesIdle

----------------------------------------------------------------------------
(* QueryData.                                                              *)

Finish(response, error) ==
  /\ pc' = "done"
  /\ resp' = response
  /\ err' = error

QueryDataNoQueries ==
  /\ pc = "start"
  /\ Len(queries) = 0
  /\ Finish(NewQueryDataResponse, "query contains no queries")
  /\ UNCHANGED outsideService
  /\ UNCHANGED <<queries, remote, dsInfo, path, executors, idx, queryRes, dr, runCount>>

QueryDataBadJSON ==
  /\ pc = "start"
  /\ Len(queries) > 0
  /\ ~queries[1].JSON.valid
  /\ Finish(NewQueryDataResponse, "invalid json")
  /\ UNCHANGED outsideService
  /\ UNCHANGED <<queries, remote, dsInfo, path, executors, idx, queryRes, dr, runCount>>

QueryDataNoInstance ==
  /\ pc = "start"
  /\ Len(queries) > 0
  /\ queries[1].JSON.valid
  /\ dsInfo.instance # "ok"
  /\ Finish(NilResponse, "no instance")
  /\ UNCHANGED outsideService
  /\ UNCHANGED <<queries, remote, dsInfo, path, executors, idx, queryRes, dr, runCount>>

(* variant: the default case is attached to the getGCEDefaultProject case *)
branchOfDefaultGCE(type) ==
  IF type = "annotationQuery" THEN "annotation"
  ELSE IF type = "timeSeriesQuery" THEN "timeseries"
  ELSE "gce"

(* the switch of QueryData on model.Type *)
branchOf(type) ==
  IF type = "annotationQuery" THEN "annotation"
  ELSE IF type = "getGCEDefaultProject" THEN "gce"
  ELSE "timeseries"

(* the switch of QueryData is reached with the type of the first query *)
Dispatch(branch) ==
  /\ pc = "start"
  /\ Len(queries) > 0
  /\ queries[1].JSON.valid
  /\ dsInfo.instance = "ok"
  /\ branch = branchOf(queries[1].JSON.type)
  /\ path' = branch

ExecuteAnnotationQuery ==
  /\ Dispatch("annotation")
  /\ Finish(SetResponse(NewQueryDataResponse, queries[1].RefID,
                        [Frames |-> <<[annotations |-> queries[1].RefID]>>,
                         Error |-> NoError]),
            NoError)
  /\ UNCHANGED outsideService
  /\ UNCHANGED <<queries, remote, dsInfo, executors, idx, queryRes, dr, runCount>>

GetGCEDefaultProject ==
  /\ Dispatch("gce")
  /\ LET p == getDefaultProject(dsInfo)
     IN  IF p.err # NoError
         THEN Finish(NewQueryDataResponse, "failed to retrieve default project")
         ELSE Finish(SetResponse(NewQueryDataResponse, queries[1].RefID,
                                 [Frames |-> <<[defaultProject |-> p.project]>>,
                                  Error |-> NoError]),
                     NoError)
  /\ UNCHANGED outsideService
  /\ UNCHANGED <<queries, remote, dsInfo, executors, idx, queryRes, dr, runCount>>

BuildExecutors ==
  /\ Dispatch("timeseries")
  /\ LET b == buildQueryExecutors(queries)
     IN  /\ b.status = "ok"
         /\ executors' = b.executors
         /\ runCount' = [i \in 1..Len(b.executors) |-> 0]
  /\ pc' = "run"
  /\ idx' = 1
  /\ resp' = NewQueryDataResponse
  /\ UNCHANGED outsideService
  /\ UNCHANGED <<queries, remote, dsInfo, queryRes, dr, err>>

BuildExecutorsError ==
  /\ Dispatch("timeseries")
  /\ buildQueryExecutors(queries).status = "error"
  /\ Finish(NewQueryDataResponse, "could not unmarshal CloudMonitoringQuery json")
  /\ UNCHANGED outsideService
  /\ UNCHANGED <<queries, remote, dsInfo, executors, idx, queryRes, dr, runCount>>

BuildExecutorsPanic ==
  /\ Dispatch("timeseries")
  /\ buildQueryExecutors(queries).status = "panic"
  /\ pc' = "panic"
  /\ UNCHANGED outsideService
  /\ UNCHANGED <<queries, remote, dsInfo, executors, idx, queryRes, dr, resp, err, runCount>>

RunReturns ==
  /\ pc = "run"
  /\ run(idx).err = NoError
  /\ runCount' = [runCount EXCEPT ![idx] = @ + 1]
  /\ queryRes' = run(idx).queryRes
  /\ dr' = run(idx).dr
  /\ pc' = "parse"
  /\ UNCHANGED outsideService
  /\ UNCHANGED <<queries, remote, dsInfo, path, executors, idx, resp, err>>

RunFails ==
  /\ pc = "run"
  /\ run(idx).err # NoError
  /\ runCount' = [runCount EXCEPT ![idx] = @ + 1]
  /\ Finish(responseOfFailedRun(resp), run(idx).err)
  /\ UNCHANGED outsideService
  /\ UNCHANGED <<queries, remote, dsInfo, path, executors, idx, queryRes, dr>>

ParseAndRecord ==
  /\ pc = "parse"
  /\ LET p == parseResponse(idx, queryRes, dr)
     IN  /\ resp' = recordResult(resp, executors[idx], p.queryRes, p.err)
         /\ queryRes' = p.queryRes
         /\ idx' = nextExecutor(idx, p.queryRes)
  /\ pc' = IF idx' > Len(executors) THEN "done" ELSE "run"
  /\ UNCHANGED outsideService
  /\ UNCHANGED <<queries, remote, dsInfo, path, executors, dr, err, runCount>>

Next ==
  \/ QueryDataNoQueries
  \/ QueryDataBadJSON
  \/ QueryDataNoInstance
  \/ ExecuteAnnotationQuery
  \/ GetGCEDefaultProject
  \/ BuildExecutors
  \/ BuildExecutorsError
  \/ BuildExecutorsPanic
  \/ RunReturns
  \/ RunFails
  \/ ParseAndRecord

Spec == Init /\ [][Next]_vars

----------------------------------------------------------------------------
(* A response parser names a series: one call of formatLegendKeys.         *)

CustomMetricType == <<"c", "u", "s", "t", "o", "m", ".", "g", "o", "o", "g", "l", "e", "a", "p", "i", "s", ".", "c", "o", "m", "/", "m", "y", "_", "m", "e", "t", "r", "i", "c">>
KubernetesMetricType == <<"k", "u", "b", "e", "r", "n", "e", "t", "e", "s", ".", "i", "o", "/", "c", "o", "n", "t", "a", "i", "n", "e", "r", "/", "c", "p", "u">>
PlainMetricType == <<"m", "y", "_", "m", "e", "t", "r", "i", "c">>
InstanceKey == <<"i", "n", "s", "t", "a", "n", "c", "e">>
ZoneKey == <<"z", "o", "n", "e">>
OnText == <<" ", "o", "n", " ">>

PlaceholderNames ==
  {MetricTypeKey, MetricNameKey, MetricServiceKey, InstanceKey, ProjectKey, ServiceKey,
   SloKey, SelectorKey, ZoneKey}

(* {{name}}, with pad between the braces and the name *)
Placeholder(name, pad) == OpenBraces \o pad \o name \o pad \o CloseBraces

(* the alias template of the placeholders from g on, joined by " on " *)
RECURSIVE AliasOf(_, _, _)
AliasOf(names, pad, g) ==
  IF g > Len(names) THEN <<>>
  ELSE (IF g > 1 THEN OnText ELSE <<>>) \o Placeholder(names[g], pad)
       \o AliasOf(names, pad, g + 1)

LabelMaps ==
  {<<>>,
   (InstanceKey :> <<"a">>),
   (InstanceKey :> <<"a">>) @@ (ProjectKey :> <<"l", "p">>)
     @@ (MetricNameKey :> <<"l", "n">>) @@ (SloKey :> <<>>)}

AdditionalLabelMaps ==
  {<<>>,
   (InstanceKey :> <<"b">>) @@ (ZoneKey :> <<"z">>) @@ (ServiceKey :> <<"l", "s">>)}

FullContext ==
  [ProjectName |-> <<"q", "p">>, Service |-> <<"q", "s">>, Slo |-> <<"q", "o">>,
   Selector |-> <<"q", "l">>]
EmptyContext == [ProjectName |-> <<>>, Service |-> <<>>, Slo |-> <<>>, Selector |-> <<>>]

SeriesOfQueries ==
  {[metricType |-> CustomMetricType, context |-> FullContext],
   [metricType |-> KubernetesMetricType, context |-> EmptyContext],
   [metricType |-> PlainMetricType, context |-> FullContext]}

(* text after the last placeholder that holds braces and no placeholder *)
TemplateTails == {<<>>, <<" ", "b">>, <<"{", "{", "}", "}">>, <<"{", "a", "}", "}">>}

LegendCalls ==
  \E n \in 0..MaxPlaceholders : \E names \in [1..n -> PlaceholderNames] :
     \E pad \in {<<>>, <<" ">>} : \E labels \in LabelMaps :
        \E additionalLabels \in AdditionalLabelMaps : \E series \in SeriesOfQueries :
         \E tail \in TemplateTails :
           /\ pad # <<>> => n = 1
           /\ tail # <<>> => (n <= 1 /\ pad = <<>>)
           /\ legendCall =
                [called |-> TRUE, metricType |-> series.metricType,
                 defaultMetricName |-> <<"d">>, labels |-> labels,
                 additionalLabels |-> additionalLabels,
                 query |-> [AliasBy |-> AliasOf(names, pad, 1) \o tail,
                            ProjectName |-> series.context.ProjectName,
                            Service |-> series.context.Service,
                            Slo |-> series.context.Slo,
                            Selector |-> series.context.Selector],
                 names |-> names, pad |-> pad, tail |-> tail]

LegendInit ==
  /\ LegendCalls
  /\ legendKey = <<>>
  /\ pc = "legend"
  /\ ServiceIdle
  /\ BucketIdle
  /\ UnmarshalIdle
  /\ PagesIdle

FormatLegendKeys ==
  /\ pc = "legend"
  /\ legendKey' = formatLegendKeys(legendCall.metricType, legendCall.defaultMetricName,
                                   legendCall.labels, legendCall.additionalLabels,
                                   legendCall.query)
  /\ pc' = "named"
  /\ UNCHANGED <<legendCall, outsideLegend>>

LegendNext == FormatLegendKeys

LegendSpec == LegendInit /\ [][LegendNext]_vars

----------------------------------------------------------------------------
(* A response parser bounds a bucket: one call of calcBucketBound.         *)

LinearOffsets == {-7, 0, 10}
LinearWidths == {0, 1, 5}
(* 1, 1.5 and 2.5 *)
ExponentialScales == {4, 6, 10}
(* 0.5, 1.5 and 2 *)
GrowthFactors == {2, 6, 8}
(* 0.5, 1, 2.5 and 1000000 *)
BoundValues == {2, 4, 10, 4000000}

(* the values of S in rising order *)
RECURSIVE Rising(_)
Rising(S) == IF S = {} THEN <<>> ELSE <<Least(S)>> \o Rising(S \ {Least(S)})

NoBuckets ==
  [LinearBuckets |-> NilBuckets, ExponentialBuckets |-> NilBuckets,
   ExplicitBuckets |-> NilBuckets]

Linear(offset, width) == [nil |-> FALSE, Offset |-> offset, Width |-> width]
Exponential(scale, growthFactor) ==
  [nil |-> FALSE, Scale |-> scale, GrowthFactor |-> growthFactor]
Explicit(bounds) == [nil |-> FALSE, Bounds |-> bounds]

BucketCalls ==
  \E n \in 0..MaxBucketIndex : \E options \in
       {NoBuckets}
       \cup {[NoBuckets EXCEPT !.LinearBuckets = Linear(offset, width)] :
               offset \in LinearOffsets, width \in LinearWidths}
       \cup {[NoBuckets EXCEPT !.LinearBuckets = Linear(10, 5),
                               !.ExplicitBuckets = Explicit(<<4>>)]}
       \cup {[NoBuckets EXCEPT !.ExponentialBuckets = Exponential(scale, growthFactor)] :
               scale \in ExponentialScales, growthFactor \in GrowthFactors}
       \cup {[NoBuckets EXCEPT !.ExplicitBuckets = Explicit(Rising(S))] :
               S \in {T \in SUBSET BoundValues : Cardinality(T) <= MaxBoundaries}} :
     bucketCall = [called |-> TRUE, bucketOptions |-> options, n |-> n]

BucketInit ==
  /\ BucketCalls
  /\ bucketBound = <<>>
  /\ pc = "bucket"
  /\ ServiceIdle
  /\ LegendIdle
  /\ UnmarshalIdle
  /\ PagesIdle

CalcBucketBound ==
  /\ pc = "bucket"
  /\ ~calcBucketBoundPanics(bucketCall.bucketOptions, bucketCall.n)
  /\ bucketBound' = calcBucketBound(bucketCall.bucketOptions, bucketCall.n)
  /\ pc' = "bound"
  /\ UNCHANGED <<bucketCall, outsideBucket>>

(* the index is out of the range of the explicit bounds: a run-time panic *)
CalcBucketBoundPanic ==
  /\ pc = "bucket"
  /\ calcBucketBoundPanics(bucketCall.bucketOptions, bucketCall.n)
  /\ pc' = "panic"
  /\ UNCHANGED <<bucketCall, bucketBound, outsideBucket>>

BucketNext == CalcBucketBound \/ CalcBucketBoundPanic

BucketSpec == BucketInit /\ [][BucketNext]_vars

----------------------------------------------------------------------------
(* An executor reads the answer of the API: one call of unmarshalResponse. *)

StatusCodes == {0, 199, 200, 204, 299, 300, 404, 500}

TimeSeriesMembers ==
  {[kind |-> k, elems |-> <<>>] : k \in {"absent", "null", "string"}}
  \cup {[kind |-> "array", elems |-> e] :
          e \in UNION {[1..n -> {"series", "bad"}] : n \in 0..MaxSeries}}

Bodies ==
  {[readable |-> r, closes |-> c, wellFormed |-> w, top |-> t, timeSeries |-> m] :
     r \in BOOLEAN, c \in BOOLEAN, w \in BOOLEAN,
     t \in {"null", "object", "array", "string"}, m \in TimeSeriesMembers}

UnmarshalInit ==
  /\ \E status \in StatusCodes : \E body \in Bodies :
        /\ body.top # "object" => body.timeSeries.kind = "absent"
        /\ ~body.wellFormed => body.top = "string"
        /\ ~body.readable => body.wellFormed
        /\ httpRes = [called |-> TRUE, StatusCode |-> status, Body |-> body]
  /\ unmarshalled = NotUnmarshalled
  /\ pc = "unmarshal"
  /\ ServiceIdle
  /\ LegendIdle
  /\ BucketIdle
  /\ PagesIdle

UnmarshalResponse ==
  /\ pc = "unmarshal"
  /\ unmarshalled' = [returned |-> TRUE, data |-> unmarshalResponse(httpRes).data,
                      err |-> unmarshalResponse(httpRes).err]
  /\ pc' = "unmarshalled"
  /\ UNCHANGED <<httpRes, outsideUnmarshal>>

UnmarshalNext == UnmarshalResponse

UnmarshalSpec == UnmarshalInit /\ [][UnmarshalNext]_vars

----------------------------------------------------------------------------
(* FolderSettingsPage: the title is edited and the folder is saved.        *)

FolderTitles == {"a", "b"}

(* Page.Contents renders its children, the form, when it is not loading *)
FormShown == ~isLoading

FolderInit ==
  /\ FolderIdle
  /\ pc = "page"
  /\ BackendIdle
  /\ OrgsIdle
  /\ ModalIdle
  /\ ExportIdle

(* onTitleChange: setFolderTitle(evt.target.value) *)
OnTitleChange ==
  /\ FormShown
  /\ \E value \in FolderTitles \cup {""} : folderTitle' = value
  /\ UNCHANGED <<isLoading, saveFolderCalls, outsideFolder>>

(* onSave up to its await: isLoading is set and saveFolder is called with *)
(* the folder of the props                                                *)
OnSave ==
  /\ FormShown
  /\ Len(saveFolderCalls) < MaxSaves
  /\ isLoading' = TRUE
  /\ saveFolderCalls' =
       Append(saveFolderCalls,
              [folder |-> folderTitle, promise |-> "pending", onSave |-> "awaiting"])
  /\ UNCHANGED <<folderTitle, outsideFolder>>

(* the promise of saveFolder settles *)
SaveFolderResolves(k) ==
  /\ saveFolderCalls[k].promise = "pending"
  /\ saveFolderCalls' = [saveFolderCalls EXCEPT ![k].promise = "fulfilled"]
  /\ UNCHANGED <<isLoading, folderTitle, outsideFolder>>

SaveFolderRejects(k) ==
  /\ saveFolderCalls[k].promise = "pending"
  /\ saveFolderCalls' = [saveFolderCalls EXCEPT ![k].promise = "rejected"]
  /\ UNCHANGED <<isLoading, folderTitle, outsideFolder>>

(* onSave after its await, when saveFolder has resolved *)
OnSaveResumes(k) ==
  /\ saveFolderCalls[k].promise = "fulfilled"
  /\ saveFolderCalls[k].onSave = "awaiting"
  /\ isLoading' = FALSE
  /\ saveFolderCalls' = [saveFolderCalls EXCEPT ![k].onSave = "returned"]
  /\ UNCHANGED <<folderTitle, outsideFolder>>

(* onSave after its await, when saveFolder has rejected: the await throws, *)
(* the statement after it is not run and the promise of onSave rejects    *)
OnSaveThrows(k) ==
  /\ saveFolderCalls[k].promise = "rejected"
  /\ saveFolderCalls[k].onSave = "awaiting"
  /\ saveFolderCalls' = [saveFolderCalls EXCEPT ![k].onSave = "thrown"]
  /\ UNCHANGED <<isLoading, folderTitle, outsideFolder>>

SaveFolderSettles == \E k \in 1..Len(saveFolderCalls) : SaveFolderResolves(k) \/ SaveFolderRejects(k)
OnSaveContinues == \E k \in 1..Len(saveFolderCalls) : OnSaveResumes(k) \/ OnSaveThrows(k)

FolderNext ==
  \/ OnTitleChange
  \/ OnSave
  \/ \E k \in 1..Len(saveFolderCalls) : SaveFolderResolves(k)
  \/ \E k \in 1..Len(saveFolderCalls) : SaveFolderRejects(k)
  \/ \E k \in 1..Len(saveFolderCalls) : OnSaveResumes(k)
  \/ \E k \in 1..Len(saveFolderCalls) : OnSaveThrows(k)

(* a request that was sent ends, and the continuation of a settled promise *)
(* is run by the event loop                                                *)
FolderSpec ==
  /\ FolderInit
  /\ [][FolderNext]_vars
  /\ WF_vars(SaveFolderSettles)
  /\ WF_vars(OnSaveContinues)

----------------------------------------------------------------------------
(* AdminOrgsTable: organizations are deleted after a confirmation.         *)

Org(id, name) == [undefined |-> FALSE, id |-> id, name |-> name]

(* props.orgs *)
Organizations == {Org(1, "a"), Org(2, "b"), Org(3, "c")}

(* variant: the confirm action leaves the dialog open *)
onConfirmStaysOpen(org, calls) ==
  [onDeleteCalls |-> Append(calls, org.id), deleteOrg |-> org]

(* onConfirm of the dialog: onDelete(deleteOrg.id); setDeleteOrg(undefined) *)
onConfirm(org, calls) ==
  [onDeleteCalls |-> Append(calls, org.id), deleteOrg |-> Undefined]

OrgsInit ==
  /\ OrgsIdle
  /\ pc = "page"
  /\ BackendIdle
  /\ FolderIdle
  /\ ModalIdle
  /\ ExportIdle

(* the delete button of a row: setDeleteOrg(org) *)
ClickDelete ==
  /\ Len(orgsEvents) < MaxEvents
  /\ \E org \in Organizations :
        /\ deleteOrg' = org
        /\ orgsEvents' = Append(orgsEvents, [type |-> "click", id |-> org.id])
  /\ UNCHANGED <<onDeleteCalls, outsideOrgs>>

(* the confirm button of the dialog, which is rendered when deleteOrg is set *)
ConfirmDelete ==
  /\ Len(orgsEvents) < MaxEvents
  /\ deleteOrg # Undefined
  /\ deleteOrg' = onConfirm(deleteOrg, onDeleteCalls).deleteOrg
  /\ onDeleteCalls' = onConfirm(deleteOrg, onDeleteCalls).onDeleteCalls
  /\ orgsEvents' = Append(orgsEvents, [type |-> "confirm", id |-> 0])
  /\ UNCHANGED outsideOrgs

(* onDismiss of the dialog: setDeleteOrg(undefined) *)
DismissDelete ==
  /\ Len(orgsEvents) < MaxEvents
  /\ deleteOrg # Undefined
  /\ deleteOrg' = Undefined
  /\ orgsEvents' = Append(orgsEvents, [type |-> "dismiss", id |-> 0])
  /\ UNCHANGED <<onDeleteCalls, outsideOrgs>>

OrgsNext == ClickDelete \/ ConfirmDelete \/ DismissDelete

OrgsSpec == OrgsInit /\ [][OrgsNext]_vars

----------------------------------------------------------------------------
(* AddToOrgModal: an organization and a role are picked, the user is added. *)

OrgRoles == {"Viewer", "Editor", OrgRoleAdmin}

ModalInit ==
  /\ ModalIdle
  /\ pc = "page"
  /\ BackendIdle
  /\ FolderIdle
  /\ OrgsIdle
  /\ ExportIdle

(* onOrgSelect: the organization picker reports an item *)
OnOrgSelect ==
  /\ Len(picked) < MaxPicks
  /\ \E org \in Organizations :
        /\ selectedOrg' = org
        /\ picked' = Append(picked, [type |-> "org", id |-> org.id, role |-> ""])
  /\ UNCHANGED <<role, onOrgAddCalls, modalError, outsideModal>>

(* onOrgRoleChange: the role picker reports a role *)
OnOrgRoleChange ==
  /\ Len(picked) < MaxPicks
  /\ \E newRole \in OrgRoles :
        /\ role' = newRole
        /\ picked' = Append(picked, [type |-> "role", id |-> 0, role |-> newRole])
  /\ UNCHANGED <<selectedOrg, onOrgAddCalls, modalError, outsideModal>>

(* onAddUserToOrg with an organization selected: onOrgAdd(selectedOrg.id, role) *)
OnAddUserToOrg ==
  /\ Len(onOrgAddCalls) < MaxAdds
  /\ selectedOrg # Null
  /\ onOrgAddCalls' =
       Append(onOrgAddCalls,
              [orgId |-> selectedOrg.id, role |-> role, picks |-> Len(picked)])
  /\ UNCHANGED <<selectedOrg, role, picked, modalError, outsideModal>>

(* onAddUserToOrg with selectedOrg null: reading the id of null throws a *)
(* TypeError, onOrgAdd is not called                                     *)
OnAddUserToOrgThrows ==
  /\ selectedOrg = Null
  /\ modalError' = TRUE
  /\ UNCHANGED <<selectedOrg, role, picked, onOrgAddCalls, outsideModal>>

ModalNext == OnOrgSelect \/ OnOrgRoleChange \/ OnAddUserToOrg \/ OnAddUserToOrgThrows

ModalSpec == ModalInit /\ [][ModalNext]_vars

----------------------------------------------------------------------------
(* ShareExport: the dashboard is exported to a file or shown as JSON.      *)

(* dashboard.getSaveModelClone(), the value makeExportable resolves with, *)
(* and resp.dashboard of the answer to a post of dash to the trim endpoint *)
SaveModelClone == <<"clone">>
Exportable == <<"exportable">>
Trimmed(dash) == <<"trimmed">> \o dash

NoPost == [state |-> "none", dashboard |-> <<>>]
Post(dash) == [state |-> "pending", dashboard |-> dash]

(* openSaveAsDialog(dash) for onSaveAsFile, openJsonModal(dash) for onViewJson *)
Open(kind, dash) ==
  [dialog |-> IF kind = "file" THEN "saveAs" ELSE "jsonModal", dashboard |-> dash]

(* onSaveAsFile and onViewJson up to their first pending step, with the *)
(* switches read from the state at the click                            *)
onExport(kind, share, trim) ==
  LET export == [kind |-> kind, shareExternally |-> share, trimDefaults |-> trim,
                 makeExportable |-> "none", post |-> NoPost, opened |-> <<>>]
  IN  IF share THEN [export EXCEPT !.makeExportable = "pending"]
      ELSE IF trim THEN [export EXCEPT !.post = Post(SaveModelClone)]
      ELSE [export EXCEPT !.opened = <<Open(kind, SaveModelClone)>>]

(* variant: the callback reads the switch when it runs *)
afterMakeExportableReadsState(export, dashboardJson) ==
  IF trimDefaults
  THEN [export EXCEPT !.makeExportable = "fulfilled", !.post = Post(dashboardJson)]
  ELSE [export EXCEPT !.makeExportable = "fulfilled",
                      !.opened = Append(@, Open(export.kind, dashboardJson))]

(* the callback given to makeExportable(dashboard).then *)
afterMakeExportable(export, dashboardJson) ==
  IF export.trimDefaults
  THEN [export EXCEPT !.makeExportable = "fulfilled", !.post = Post(dashboardJson)]
  ELSE [export EXCEPT !.makeExportable = "fulfilled",
                      !.opened = Append(@, Open(export.kind, dashboardJson))]

(* the callback given to post(...).then *)
afterPost(export, answer) ==
  [export EXCEPT !.post.state = "fulfilled",
                 !.opened = Append(@, Open(export.kind, answer.dashboard))]

ExportInit ==
  /\ ExportIdle
  /\ pc = "page"
  /\ BackendIdle
  /\ FolderIdle
  /\ OrgsIdle
  /\ ModalIdle

OnShareExternallyChange ==
  /\ shareExternally' = ~shareExternally
  /\ UNCHANGED <<trimDefaults, exports, outsideExport>>

OnTrimDefaultsChange ==
  /\ trimDefaults' = ~trimDefaults
  /\ UNCHANGED <<shareExternally, exports, outsideExport>>

(* a click on an export button; clicked keeps the switches as they were then *)
Export(kind) ==
  /\ Len(exports) < MaxExports
  /\ exports' =
       Append(exports,
              [clicked |-> [shareExternally |-> shareExternally,
                            trimDefaults |-> trimDefaults],
               steps |-> onExport(kind, shareExternally, trimDefaults)])
  /\ UNCHANGED <<shareExternally, trimDefaults, outsideExport>>

OnSaveAsFile == Export("file")
OnViewJson == Export("json")

MakeExportableResolves(k) ==
  /\ exports[k].steps.makeExportable = "pending"
  /\ exports' = [exports EXCEPT ![k].steps = afterMakeExportable(@, Exportable)]
  /\ UNCHANGED <<shareExternally, trimDefaults, outsideExport>>

(* no callback is given for a rejection: the export ends *)
MakeExportableRejects(k) ==
  /\ exports[k].steps.makeExportable = "pending"
  /\ exports' = [exports EXCEPT ![k].steps.makeExportable = "rejected"]
  /\ UNCHANGED <<shareExternally, trimDefaults, outsideExport>>

TrimResolves(k) ==
  /\ exports[k].steps.post.state = "pending"
  /\ exports' =
       [exports EXCEPT
          ![k].steps = afterPost(@, [dashboard |-> Trimmed(@.post.dashboard)])]
  /\ UNCHANGED <<shareExternally, trimDefaults, outsideExport>>

TrimRejects(k) ==
  /\ exports[k].steps.post.state = "pending"
  /\ exports' = [exports EXCEPT ![k].steps.post.state = "rejected"]
  /\ UNCHANGED <<shareExternally, trimDefaults, outsideExport>>

ExportNext ==
  \/ OnShareExternallyChange
  \/ OnTrimDefaultsChange
  \/ OnSaveAsFile
  \/ OnViewJson
  \/ \E k \in 1..Len(exports) : MakeExportableResolves(k)
  \/ \E k \in 1..Len(exports) : MakeExportableRejects(k)
  \/ \E k \in 1..Len(exports) : TrimResolves(k)
  \/ \E k \in 1..Len(exports) : TrimRejects(k)

ExportSpec == ExportInit /\ [][ExportNext]_vars

----------------------------------------------------------------------------
(* Properties of executeTimeSeriesQuery.                                   *)

TimeSeriesDone == pc = "done" /\ path = "timeseries"

RemoteFailures == {"non2xx", "transport", "unparseable"}

(* the reference ids of the batch are pairwise distinct *)
DistinctRefIDs ==
  \A i, j \in 1..Len(queries) : queries[i].RefID = queries[j].RefID => i = j

(* no run of the batch returns an error *)
NoRunError == \A i \in 1..Len(remote) : remote[i].run # "error"

(* the batch was run to its end by executeTimeSeriesQuery *)
RanToEnd == TimeSeriesDone /\ Len(executors) > 0 /\ NoRunError

(* the result of query i alone: what its run and its parseResponse leave *)
OwnResult(i) ==
  [Frames |-> FramesOf(queries[i].RefID,
                       IF remote[i].run # "ok" THEN 0
                       ELSE IF remote[i].parse = "ok" THEN 1 ELSE remote[i].partial),
   Error |-> IF remote[i].parse # "ok" THEN "parse failed"
             ELSE IF remote[i].run \in RemoteFailures THEN remote[i].run
             ELSE NoError]

C6_KeyedByRefID ==
  (RanToEnd /\ DistinctRefIDs) =>
     /\ DOMAIN resp = {queries[i].RefID : i \in 1..Len(queries)}
     /\ \A i \in 1..Len(queries) : resp[queries[i].RefID] = OwnResult(i)

(* a batch whose reference ids are not in the order of the alphabet *)
C6_Witness ==
  /\ RanToEnd /\ DistinctRefIDs
  /\ Len(queries) = 3
  /\ queries[1].RefID = "C" /\ queries[2].RefID = "A" /\ queries[3].RefID = "B"
  /\ remote[2].run = "non2xx"
  /\ resp["A"].Error = "non2xx" /\ resp["C"].Error = NoError

\* C7: within one call of executeTimeSeriesQuery the run of each executor is invoked
\* at most once, also when its remote call failed: the executors before the loop
\* position ran once, those after it not yet.
C7_RunAtMostOnce ==
  path = "timeseries" =>
     \A i \in 1..Len(runCount) :
        /\ runCount[i] <= 1
        /\ (pc = "run" /\ i < idx) => runCount[i] = 1
        /\ (pc = "run" /\ i >= idx) => runCount[i] = 0

(* a remote call failed, the batch went on, and the failing run was issued once *)
C7_Witness ==
  /\ RanToEnd
  /\ Len(queries) = 3
  /\ remote[1].run = "transport"
  /\ runCount = <<1, 1, 1>>
  /\ resp[queries[1].RefID].Error = "transport"

----------------------------------------------------------------------------
(* Properties of QueryData and buildQueryExecutors.                        *)

(* QueryData reached its switch *)
ReachedSwitch ==
  /\ pc # "start"
  /\ Len(queries) > 0
  /\ queries[1].JSON.valid
  /\ dsInfo.instance = "ok"

(* buildQueryExecutors returned its executors, one per query *)
Built == path = "timeseries" /\ pc \in {"run", "parse", "done"} /\ Len(executors) > 0

RefIDsOfBatch == {queries[i].RefID : i \in 1..Len(queries)}

(* query i declares a queryType, and it is neither metrics nor slo *)
DeclaresUnknownType(i) ==
  queries[i].JSON.queryType \notin {"", metricQueryType, sloQueryType}

\* C2: for every batch in which some query declares a queryType that is neither
\* metrics nor slo, the time-series path returns an error together with a response
\* that holds no per-query result, runs no executor, and does not treat the query
\* as a query of a default type. Stated for queries in the current format, whose
\* JSON holds a metricQuery object, so that queryModel keeps the declared type.
C2_UnknownTypeReturnsError ==
  (path = "timeseries" /\ \E i \in 1..Len(queries) :
      DeclaresUnknownType(i) /\ queries[i].JSON.hasMetricQuery) =>
     /\ pc = "done"
     /\ err # NoError
     /\ resp = NewQueryDataResponse
     /\ executors = <<>>

\* C3 as stated: QueryData aborts the batch with an error and no per-query results
\* when the type of the first query is not a recognised type, and never runs such a
\* batch as a time-series query.
C3_UnrecognisedTypeAborts ==
  (ReachedSwitch /\ queries[1].JSON.type \notin
      {"", "annotationQuery", "getGCEDefaultProject", "timeSeriesQuery"}) =>
     /\ pc = "done"
     /\ err # NoError
     /\ resp = NewQueryDataResponse
     /\ path # "timeseries"

\* C3 as amended: when the type of the first query is neither annotationQuery nor
\* getGCEDefaultProject, also when it is no recognised type, QueryData runs the batch
\* as a time-series query; a batch run to its end returns no error and an entry for
\* every query.
C3_UnrecognisedTypeRunsAsTimeSeries ==
  (ReachedSwitch /\ queries[1].JSON.type \notin {"annotationQuery", "getGCEDefaultProject"}) =>
     /\ path = "timeseries"
     /\ RanToEnd => (err = NoError /\ DOMAIN resp = RefIDsOfBatch)

(* a batch of an unrecognised type was run as a time-series query *)
C3_Witness ==
  /\ RanToEnd
  /\ queries[1].JSON.type = "traces"
  /\ err = NoError
  /\ DOMAIN resp = RefIDsOfBatch

(* the default project getGCEDefaultProject has to return *)
ExpectedDefaultProject ==
  IF dsInfo.authenticationType = "gce" THEN dsInfo.gceProjectID ELSE dsInfo.defaultProject

\* C4: for a reserved query type (annotationQuery, getGCEDefaultProject) QueryData
\* builds and runs no query executor; a successful getGCEDefaultProject returns
\* exactly one entry, keyed by the first query's reference id, whose single frame
\* carries the default project.
C4_ReservedTypes ==
  /\ path \in {"annotation", "gce"} =>
       (pc = "done" /\ executors = <<>> /\ runCount = <<>>)
  /\ (path = "gce" /\ err = NoError) =>
       resp = (queries[1].RefID :>
                 [Frames |-> <<[defaultProject |-> ExpectedDefaultProject]>>,
                  Error |-> NoError])

(* getGCEDefaultProject answered a batch of two with the project of the credentials *)
C4_Witness ==
  /\ path = "gce" /\ err = NoError
  /\ Len(queries) = 2
  /\ dsInfo.authenticationType = "gce"
  /\ DOMAIN resp = {queries[1].RefID}
  /\ resp[queries[1].RefID].Frames = <<[defaultProject |-> dsInfo.gceProjectID]>>

(* the alignment-period specifier the JSON of query i gives its executor *)
AlignmentPeriodOf(i) ==
  IF executors[i].kind = "slo" THEN queries[i].JSON.sloQuery.AlignmentPeriod
  ELSE queries[i].JSON.metricQuery.AlignmentPeriod

\* C8: every executor built by buildQueryExecutors uses the time range of the first
\* query of the batch: interval.startTime and interval.endTime are the first query's
\* From and To, the duration used for alignment is that of the first query, and the
\* interval used for alignment is the query's own.
C8_TimeRangeOfFirstQuery ==
  Built =>
     \A i \in 1..Len(executors) :
        LET first == queries[1].TimeRange
            e == executors[i]
        IN  IF e.kind = "mql"
            THEN /\ e.timeRange = first
                 /\ e.IntervalMS = Milliseconds(queries[i].Interval)
            ELSE /\ e.Params["interval.startTime"] = <<FormatRFC3339(first.From)>>
                 /\ e.Params["interval.endTime"] = <<FormatRFC3339(first.To)>>
                 /\ e.Params["aggregation.alignmentPeriod"] =
                      <<calculateAlignmentPeriod(AlignmentPeriodOf(i),
                                                 Milliseconds(queries[i].Interval),
                                                 DurationSeconds(first))>>

(* the second query carries a range of 25 hours, the first one of an hour: the *)
(* second is aligned for the hour of the first, with its own interval           *)
C8_Witness ==
  /\ Built
  /\ Len(queries) = 2
  /\ queries[1].TimeRange = [From |-> 1500, To |-> 3601700]
  /\ queries[2].TimeRange = [From |-> 86400000, To |-> 176400000]
  /\ queries[2].JSON.metricQuery.AlignmentPeriod = StackdriverAuto
  /\ executors[2].kind = "filter"
  /\ executors[2].Params["interval.startTime"] = <<[rfc3339 |-> 1]>>
  /\ executors[2].Params["interval.endTime"] = <<[rfc3339 |-> 3601]>>
  /\ executors[2].Params["aggregation.alignmentPeriod"] = <<Plus60s>>

(* the executor of a metric query, by its editor mode *)
MetricExecutor(i) ==
  IF queries[i].JSON.metricQuery.EditorMode = mqlEditorMode THEN "mql" ELSE "filter"

\* C9 as stated: a query that declares no queryType is classified as a metric query,
\* whether or not its JSON holds a metricQuery object; a metric query is run by the
\* raw query-language executor exactly when its editorMode is mql and by the filter
\* executor otherwise; a query with queryType slo is run by the SLO executor.
C9_MetricsIsTheDefault ==
  (path = "timeseries" /\ \A i \in 1..Len(queries) :
      queries[i].JSON.valid /\ ~DeclaresUnknownType(i)) =>
     /\ pc # "panic"
     /\ Built =>
          \A i \in 1..Len(queries) :
             executors[i].kind =
               IF queries[i].JSON.queryType = sloQueryType THEN "slo"
               ELSE MetricExecutor(i)

\* C9 as amended: a query whose JSON holds no metricQuery object is classified as a
\* metric query, whatever queryType it declares; a query whose JSON holds a
\* metricQuery object is classified by the queryType it declares, metrics as a metric
\* query and slo as an SLO query, and executors are built only if every such query
\* declares one of the two; a metric query is run by the raw query-language executor
\* exactly when its editorMode is mql and by the filter executor otherwise, an SLO
\* query by the SLO executor.
C9_Classification ==
  Built =>
     \A i \in 1..Len(queries) :
        IF ~queries[i].JSON.hasMetricQuery
        THEN executors[i].kind = MetricExecutor(i)
        ELSE /\ queries[i].JSON.queryType \in {metricQueryType, sloQueryType}
             /\ executors[i].kind =
                  IF queries[i].JSON.queryType = sloQueryType THEN "slo"
                  ELSE MetricExecutor(i)

(* a query without metricQuery object that declares slo, built as a raw *)
(* query-language executor, beside an SLO query                         *)
C9_Witness ==
  /\ Built
  /\ Len(queries) = 2
  /\ ~queries[1].JSON.hasMetricQuery /\ queries[1].JSON.queryType = sloQueryType
  /\ executors[1].kind = "mql"
  /\ queries[2].JSON.hasMetricQuery /\ executors[2].kind = "slo"

(* the reducer and the aligner the user of query i asks for: the defaults *)
(* when the JSON names none                                               *)
UserReducer(i) ==
  IF queries[i].JSON.metricQuery.CrossSeriesReducer = "" THEN crossSeriesReducerDefault
  ELSE queries[i].JSON.metricQuery.CrossSeriesReducer

UserAligner(i) ==
  IF queries[i].JSON.metricQuery.PerSeriesAligner = "" THEN perSeriesAlignerDefault
  ELSE queries[i].JSON.metricQuery.PerSeriesAligner

PreprocessorOf(i) == toPreprocessorType(queries[i].JSON.metricQuery.Preprocessor)

\* C10: for every metric filter query with preprocessor Rate or Delta the primary
\* aligner is ALIGN_RATE for Rate and ALIGN_DELTA for Delta, the primary cross-series
\* reducer is REDUCE_NONE when the query has no group-by field and the user's reducer
\* when it has one, and the secondary aggregation carries the user's reducer, aligner
\* and group-by fields.
C10_TwoStageAggregation ==
  Built =>
     \A i \in 1..Len(executors) :
        (executors[i].kind = "filter"
         /\ PreprocessorOf(i) \in {PreprocessorTypeRate, PreprocessorTypeDelta}) =>
           LET params == executors[i].Params
               groupBys == queries[i].JSON.metricQuery.GroupBys
           IN  /\ params["aggregation.perSeriesAligner"] =
                    <<IF PreprocessorOf(i) = PreprocessorTypeRate
                      THEN "ALIGN_RATE" ELSE "ALIGN_DELTA">>
               /\ params["aggregation.crossSeriesReducer"] =
                    <<IF groupBys = <<>> THEN "REDUCE_NONE" ELSE UserReducer(i)>>
               /\ params["secondaryAggregation.crossSeriesReducer"] = <<UserReducer(i)>>
               /\ params["secondaryAggregation.perSeriesAligner"] = <<UserAligner(i)>>
               /\ params["secondaryAggregation.groupByFields"] = groupBys

(* preprocessor delta, no group-by field, the user asks for REDUCE_SUM *)
C10_Witness ==
  /\ Built
  /\ executors[1].kind = "filter"
  /\ queries[1].JSON.metricQuery.Preprocessor = "delta"
  /\ queries[1].JSON.metricQuery.GroupBys = <<>>
  /\ queries[1].JSON.metricQuery.CrossSeriesReducer = "REDUCE_SUM"
  /\ executors[1].Params["aggregation.perSeriesAligner"] = <<"ALIGN_DELTA">>
  /\ executors[1].Params["aggregation.crossSeriesReducer"] = <<"REDUCE_NONE">>
  /\ executors[1].Params["secondaryAggregation.crossSeriesReducer"] = <<"REDUCE_SUM">>

----------------------------------------------------------------------------
(* Properties of the aggregation parameters.                               *)

SecondaryKeys == {k \in ParamKeys : k \notin {"interval.startTime", "interval.endTime",
                                               "filter", "view"}
                                    /\ k \notin {"aggregation.alignmentPeriod",
                                                 "aggregation.crossSeriesReducer",
                                                 "aggregation.perSeriesAligner",
                                                 "aggregation.groupByFields"}}

\* C11: the parameters of a metric filter query hold a value under a key of the
\* secondaryAggregation namespace if and only if the query's preprocessor is Rate or
\* Delta; without a preprocessor setMetricAggParams adds values under aggregation.*
\* keys only (the caller's interval.*, filter and view hold one value each), and
\* aggregation.crossSeriesReducer and aggregation.perSeriesAligner are the user's
\* reducer and aligner.
C11_SecondaryOnlyWithPreprocessor ==
  Built =>
     \A i \in 1..Len(executors) :
        executors[i].kind = "filter" =>
           LET params == executors[i].Params
               mq == queries[i].JSON.metricQuery
           IN  /\ (\E k \in SecondaryKeys : params[k] # <<>>)
                    <=> PreprocessorOf(i) \in {PreprocessorTypeRate, PreprocessorTypeDelta}
               /\ PreprocessorOf(i) = PreprocessorTypeNone =>
                    /\ \A k \in SecondaryKeys : params[k] = <<>>
                    /\ \A k \in {"interval.startTime", "interval.endTime", "filter", "view"} :
                          Len(params[k]) = 1
                    /\ params["aggregation.crossSeriesReducer"] = <<UserReducer(i)>>
                    /\ params["aggregation.perSeriesAligner"] = <<UserAligner(i)>>
                    /\ Len(params["aggregation.alignmentPeriod"]) = 1
                    /\ params["aggregation.groupByFields"] = mq.GroupBys

(* no preprocessor, two group-by fields, the user asks for REDUCE_MEAN and ALIGN_MAX *)
C11_Witness ==
  /\ Built
  /\ executors[1].kind = "filter"
  /\ queries[1].JSON.metricQuery.Preprocessor = "none"
  /\ Len(queries[1].JSON.metricQuery.GroupBys) = 2
  /\ queries[1].JSON.metricQuery.CrossSeriesReducer = "REDUCE_MEAN"
  /\ executors[1].Params["aggregation.crossSeriesReducer"] = <<"REDUCE_MEAN">>
  /\ executors[1].Params["aggregation.perSeriesAligner"] = <<"ALIGN_MAX">>
  /\ executors[1].Params["secondaryAggregation.crossSeriesReducer"] = <<>>
  /\ executors[1].Params["secondaryAggregation.groupByFields"] = <<>>

\* C12: for every SLO query setSloAggParams adds exactly one
\* aggregation.perSeriesAligner, ALIGN_MEAN when the selector name is
\* select_slo_health and ALIGN_NEXT_OLDER for every other selector name, and no
\* cross-series reducer, neither primary nor secondary.
C12_SloAligner ==
  Built =>
     \A i \in 1..Len(executors) :
        executors[i].kind = "slo" =>
           LET params == executors[i].Params
           IN  /\ params["aggregation.perSeriesAligner"] =
                    <<IF queries[i].JSON.sloQuery.SelectorName = SelectSloHealth
                      THEN "ALIGN_MEAN" ELSE "ALIGN_NEXT_OLDER">>
               /\ params["aggregation.crossSeriesReducer"] = <<>>
               /\ params["secondaryAggregation.crossSeriesReducer"] = <<>>
               /\ params["secondaryAggregation.perSeriesAligner"] = <<>>

(* the burn-rate selector is aligned with ALIGN_NEXT_OLDER *)
C12_Witness ==
  /\ Built
  /\ executors[1].kind = "slo"
  /\ queries[1].JSON.sloQuery.SelectorName = SelectSloBurnRate
  /\ executors[1].Params["aggregation.perSeriesAligner"] = <<"ALIGN_NEXT_OLDER">>
  /\ executors[1].Params["aggregation.crossSeriesReducer"] = <<>>

----------------------------------------------------------------------------
(* Properties of calculateAlignmentPeriod.                                 *)

DigitValue(c) == CHOOSE d \in 0..9 : Digit(d) = c

(* the number a sequence of decimal digits stands for *)
RECURSIVE DecimalValue(_)
DecimalValue(s) ==
  IF s = <<>> THEN 0
  ELSE 10 * DecimalValue(SubSeq(s, 1, Len(s) - 1)) + DigitValue(s[Len(s)])

Digits == {Digit(d) : d \in 0..9}

(* s is "+<n>s" for the decimal numeral of n, without leading zero *)
IsPlusSeconds(s, n) ==
  /\ Len(s) >= 3
  /\ s[1] = "+" /\ s[Len(s)] = "s"
  /\ \A k \in 2..(Len(s) - 1) : s[k] \in Digits
  /\ s[2] # "0"
  /\ DecimalValue(SubSeq(s, 2, Len(s) - 1)) = n

(* the alignment period of executor i and the arguments it was computed from *)
AlignmentPeriodParam(i) == executors[i].Params["aggregation.alignmentPeriod"]
IntervalMsOf(i) == Milliseconds(queries[i].Interval)
DurationSecondsOfBatch == DurationSeconds(queries[1].TimeRange)

\* C13: for the current sentinel grafana-auto and every intervalMs >= 0 the
\* alignment period is "+<n>s" with n = max(intervalMs/1000, 60) in whole seconds,
\* whatever the duration; for a legacy sentinel (stackdriver-auto,
\* cloud-monitoring-auto) it is "+60s" when max(durationSeconds, 60) is below 23
\* hours, "+300s" from 23 hours to below 6 days, "+3600s" from 6 days on, whatever
\* the interval; (grafana-auto, 15000, 3600) gives "+60s" and
\* (stackdriver-auto, 0, 90000) gives "+300s".
C13_AutoSentinels ==
  Built =>
     \A i \in 1..Len(executors) :
        executors[i].kind \in {"filter", "slo"} =>
           LET spec == AlignmentPeriodOf(i)
               ms == IntervalMsOf(i)
               d == DurationSecondsOfBatch
               floored == IF d < 60 THEN 60 ELSE d
           IN  /\ Len(AlignmentPeriodParam(i)) = 1
               /\ (spec = GrafanaAuto /\ ms >= 0) =>
                    IsPlusSeconds(AlignmentPeriodParam(i)[1],
                                  IF ms \div 1000 > 60 THEN ms \div 1000 ELSE 60)
               /\ spec \in {StackdriverAuto, CloudMonitoringAuto} =>
                    AlignmentPeriodParam(i)[1] =
                      (IF floored < 82800 THEN <<"+", "6", "0", "s">>
                       ELSE IF floored < 518400 THEN <<"+", "3", "0", "0", "s">>
                       ELSE <<"+", "3", "6", "0", "0", "s">>)
               /\ (spec = GrafanaAuto /\ ms = 15000 /\ d = 3600) =>
                    AlignmentPeriodParam(i)[1] = <<"+", "6", "0", "s">>
               /\ (spec = StackdriverAuto /\ ms = 0 /\ d = 90000) =>
                    AlignmentPeriodParam(i)[1] = <<"+", "3", "0", "0", "s">>

(* the second example of the claim: stackdriver-auto, interval 0, 25 hours *)
C13_Witness ==
  /\ Built
  /\ Len(queries) = 1
  /\ AlignmentPeriodOf(1) = StackdriverAuto
  /\ IntervalMsOf(1) = 0
  /\ DurationSecondsOfBatch = 90000
  /\ AlignmentPeriodParam(1) = <<Plus300s>>

\* C14 as stated: every alignment-period specifier that is neither grafana-auto
\* nor a legacy sentinel is returned unchanged, for every interval and duration.
C14_OtherSpecifiersUnchanged ==
  Built =>
     \A i \in 1..Len(executors) :
        (executors[i].kind \in {"filter", "slo"}
         /\ AlignmentPeriodOf(i) \notin {GrafanaAuto, StackdriverAuto, CloudMonitoringAuto}) =>
           AlignmentPeriodParam(i) = <<AlignmentPeriodOf(i)>>

\* C14 as amended: every non-empty alignment-period specifier that is neither
\* grafana-auto nor a legacy sentinel is returned unchanged, for every interval and
\* duration; the empty specifier is resolved like grafana-auto, to "+<n>s" with
\* n = max(intervalMs/1000, 60).
C14_ExplicitSpecifiersUnchanged ==
  Built =>
     \A i \in 1..Len(executors) :
        executors[i].kind \in {"filter", "slo"} =>
           /\ (AlignmentPeriodOf(i) # <<>>
               /\ AlignmentPeriodOf(i) \notin {GrafanaAuto, StackdriverAuto,
                                                CloudMonitoringAuto}) =>
                 AlignmentPeriodParam(i) = <<AlignmentPeriodOf(i)>>
           /\ (AlignmentPeriodOf(i) = <<>> /\ IntervalMsOf(i) >= 0) =>
                 /\ Len(AlignmentPeriodParam(i)) = 1
                 /\ IsPlusSeconds(AlignmentPeriodParam(i)[1],
                                  IF IntervalMsOf(i) \div 1000 > 60
                                  THEN IntervalMsOf(i) \div 1000 ELSE 60)

(* an explicit "+120s" is kept over a range of 25 hours with an interval of 2000 s *)
C14_Witness ==
  /\ Built
  /\ Len(queries) = 1
  /\ AlignmentPeriodOf(1) = Plus120s
  /\ IntervalMsOf(1) = 2000000
  /\ DurationSecondsOfBatch = 90000
  /\ AlignmentPeriodParam(1) = <<Plus120s>>

----------------------------------------------------------------------------
(* Properties of buildFilterString.                                        *)

(* the filter parameter of executor i and what it was built from *)
FilterParam(i) == executors[i].Params["filter"][1]
FiltersOf(i) == queries[i].JSON.metricQuery.Filters
MetricTypeClause(i) ==
  <<"m", "e", "t", "r", "i", "c", ".", "t", "y", "p", "e", "=", "\"">>
  \o queries[i].JSON.metricQuery.MetricType \o <<"\"">>

(* groups of key, operator and value, joined by the connector AND *)
WellFormed(tokens) ==
  \/ tokens = <<>>
  \/ /\ Len(tokens) % 4 = 3
     /\ \A j \in 1..Len(tokens) :
          /\ j % 4 = 0 => tokens[j] = AndToken
          /\ j % 4 \in {1, 2} => tokens[j] # AndToken

NumGroups(tokens) == (Len(tokens) + 1) \div 4
GroupKey(tokens, g) == tokens[4 * (g - 1) + 1]
GroupOperator(tokens, g) == tokens[4 * (g - 1) + 2]
GroupValue(tokens, g) == tokens[4 * (g - 1) + 3]

(* what the loop of buildFilterString emits for group g when it is the only one *)
EmittedAlone(tokens, g) ==
  FilterLoop(<<GroupKey(tokens, g), GroupOperator(tokens, g), GroupValue(tokens, g)>>,
             0, <<>>)

(* the groups from h on, each after a single space; group g is given as term *)
RECURSIVE JoinedTerms(_, _, _, _)
JoinedTerms(tokens, g, term, h) ==
  IF h > NumGroups(tokens) THEN <<>>
  ELSE <<" ">> \o (IF h = g THEN term ELSE EmittedAlone(tokens, h))
       \o JoinedTerms(tokens, g, term, h + 1)

(* the filter of query i in which group g is emitted as term *)
FilterWithTerm(i, g, term) ==
  Trim(MetricTypeClause(i) \o JoinedTerms(FiltersOf(i), g, term, 1), " ")

(* query i is a metric filter query with well-formed filter tokens *)
FilterBuilt(i) == executors[i].kind = "filter" /\ WellFormed(FiltersOf(i))

\* C15: for every metric type and every well-formed filter token sequence the
\* output of buildFilterString starts with metric.type="<metricType>", and the
\* terms of the groups follow it in their order, each after a single space; for
\* the empty token sequence the output is exactly the metric-type clause, with no
\* trailing space, and no output ends with a space.
C15_ClauseThenTerms ==
  Built =>
     \A i \in 1..Len(executors) :
        FilterBuilt(i) =>
           LET out == FilterParam(i)
               clause == MetricTypeClause(i)
               tokens == FiltersOf(i)
               joined == clause \o JoinedTerms(tokens, 0, <<>>, 1)
           IN  /\ Len(executors[i].Params["filter"]) = 1
               /\ Len(out) >= Len(clause)
               /\ SubSeq(out, 1, Len(clause)) = clause
               /\ tokens = <<>> => out = clause
               /\ out[Len(out)] # " "
               /\ out = Trim(joined, " ")
               /\ (\A g \in 1..NumGroups(tokens) : GroupValue(tokens, g) # AndToken) =>
                    out = joined

(* two groups after the clause, and the clause alone for an empty token sequence *)
C15_Witness ==
  /\ Built
  /\ Len(queries) = 1
  /\ FilterBuilt(1)
  /\ NumGroups(FiltersOf(1)) = 2
  /\ FilterParam(1) =
       <<"m", "e", "t", "r", "i", "c", ".", "t", "y", "p", "e", "=", "\"", "m", "\"", " ", "k", "=", "\"", "a", "~", "\"", " ", "z", "=", "m", "o", "n", "i", "t", "o", "r", "i", "n", "g", ".", "r", "e", "g", "e", "x", ".", "f", "u", "l", "l", "_", "m", "a", "t", "c", "h", "(", "\"", "*", "a", "\"", ")">>

(* name("arg"), a call of a pattern-match function of the remote API *)
Call(name, arg) == name \o <<"(", "\"">> \o arg \o <<"\"", ")">>

HasSubstringName == <<"h", "a", "s", "_", "s", "u", "b", "s", "t", "r", "i", "n", "g">>
EndsWithName == <<"e", "n", "d", "s", "_", "w", "i", "t", "h">>
StartsWithName == <<"s", "t", "a", "r", "t", "s", "_", "w", "i", "t", "h">>
FullMatchName == <<"m", "o", "n", "i", "t", "o", "r", "i", "n", "g", ".", "r", "e", "g", "e", "x", ".", "f", "u", "l", "l", "_", "m", "a", "t", "c", "h">>

RegexOperators == {<<"=", "~">>, <<"!", "=", "~">>}

(* the positions of the asterisks of a value *)
Asterisks(value) == {k \in 1..Len(value) : value[k] = "*"}

(* group g of query i has an operator that is no regex operator *)
PlainGroup(i, g) == GroupOperator(FiltersOf(i), g) \notin RegexOperators

(* group g of query i is emitted as its key, the operator op and the text *)
EmittedAs(i, g, op, text) ==
  FilterParam(i) = FilterWithTerm(i, g, GroupKey(FiltersOf(i), g) \o op \o text)

\* C16: under an operator that is no regex operator, a value with exactly two
\* asterisks, one at the start and one at the end, is emitted as
\* has_substring("<value without them>"); a value with exactly one asterisk, at the
\* start only, as ends_with("<rest>"); a value with exactly one asterisk, at the end
\* only, as starts_with("<rest>"); the rest is kept character for character.
C16_SimpleWildcards ==
  Built =>
     \A i \in 1..Len(executors) :
        FilterBuilt(i) =>
           \A g \in 1..NumGroups(FiltersOf(i)) :
              LET value == GroupValue(FiltersOf(i), g)
                  operator == GroupOperator(FiltersOf(i), g)
                  n == Len(value)
              IN  (PlainGroup(i, g) /\ n >= 2) =>
                     /\ Asterisks(value) = {1, n} =>
                          EmittedAs(i, g, operator,
                                    Call(HasSubstringName, SubSeq(value, 2, n - 1)))
                     /\ Asterisks(value) = {1} =>
                          EmittedAs(i, g, operator,
                                    Call(EndsWithName, SubSeq(value, 2, n)))
                     /\ Asterisks(value) = {n} =>
                          EmittedAs(i, g, operator,
                                    Call(StartsWithName, SubSeq(value, 1, n - 1)))

(* the value a.* under != is a prefix test that keeps the dot as it is *)
C16_Witness ==
  /\ Built
  /\ Len(queries) = 1
  /\ FilterBuilt(1)
  /\ FiltersOf(1) = <<<<"k">>, <<"!", "=">>, <<"a", ".", "*">>>>
  /\ FilterParam(1) =
       <<"m", "e", "t", "r", "i", "c", ".", "t", "y", "p", "e", "=", "\"", "m", "\"", " ", "k", "!", "=", "s", "t", "a", "r", "t", "s", "_", "w", "i", "t", "h", "(", "\"", "a", ".", "\"", ")">>

(* the value is one of the three simple shapes, as the code tells them: the *)
(* single asterisk * counts as a leading one                                *)
SimpleShape(value) == Asterisks(value) \in {{1}, {Len(value)}, {1, Len(value)}}

(* the pattern of a value: .* for an asterisk, two backslashes before a       *)
(* character of the class of wildcardRegexRe and before a double quote, every *)
(* other character, the backslash among them, as it is                        *)
RECURSIVE PatternOf(_)
PatternOf(value) ==
  IF value = <<>> THEN <<>>
  ELSE LET c == Head(value)
       IN  (IF c = "*" THEN <<".", "*">>
            ELSE IF c \in {"-", "/", "^", "$", "+", "?", ".", "(", ")", "|", "[", "]",
                           "{", "}", "\""}
            THEN <<"\\", "\\", c>>
            ELSE <<c>>)
           \o PatternOf(Tail(value))

FullMatchOf(value) == Call(FullMatchName, <<"^">> \o PatternOf(value) \o <<"$">>)

\* C17 as stated: under an operator that is no regex operator, a value with at
\* least one asterisk that is not of the three simple shapes, or that holds a
\* special character besides its asterisks, is emitted as
\* monitoring.regex.full_match("^...$") with every asterisk replaced by .* and
\* every special character escaped.
C17_SpecialCharactersForceRegex ==
  Built =>
     \A i \in 1..Len(executors) :
        FilterBuilt(i) =>
           \A g \in 1..NumGroups(FiltersOf(i)) :
              LET value == GroupValue(FiltersOf(i), g)
              IN  (/\ PlainGroup(i, g)
                   /\ Asterisks(value) # {}
                   /\ \/ ~SimpleShape(value)
                      \/ \E k \in 1..Len(value) : value[k] \in wildcardRegexRe) =>
                     EmittedAs(i, g, GroupOperator(FiltersOf(i), g), FullMatchOf(value))

\* C17 as amended: under an operator that is no regex operator, a value with at
\* least one asterisk that is not of the three simple shapes is emitted as
\* monitoring.regex.full_match("^...$") in which every asterisk is replaced by .*,
\* every character of the class of wildcardRegexRe and every double quote is
\* preceded by two backslashes, and every other character is kept; a value of a
\* simple shape is not emitted as a regex match, whatever special characters it
\* holds.
C17_OtherPlacementsAreRegex ==
  Built =>
     \A i \in 1..Len(executors) :
        FilterBuilt(i) =>
           \A g \in 1..NumGroups(FiltersOf(i)) :
              LET value == GroupValue(FiltersOf(i), g)
              IN  (PlainGroup(i, g) /\ Asterisks(value) # {}) =>
                     IF SimpleShape(value)
                     THEN ~EmittedAs(i, g, GroupOperator(FiltersOf(i), g),
                                     FullMatchOf(value))
                     ELSE EmittedAs(i, g, GroupOperator(FiltersOf(i), g),
                                    FullMatchOf(value))

(* the value .*a, an asterisk inside: the dot is escaped, the asterisk is .* *)
C17_Witness ==
  /\ Built
  /\ Len(queries) = 1
  /\ FilterBuilt(1)
  /\ FiltersOf(1) = <<<<"k">>, <<"=">>, <<".", "*", "a">>>>
  /\ FilterParam(1) =
       <<"m", "e", "t", "r", "i", "c", ".", "t", "y", "p", "e", "=", "\"", "m", "\"", " ", "k", "=", "m", "o", "n", "i", "t", "o", "r", "i", "n", "g", ".", "r", "e", "g", "e", "x", ".", "f", "u", "l", "l", "_", "m", "a", "t", "c", "h", "(", "\"", "^", "\\", "\\", ".", ".", "*", "a", "$", "\"", ")">>

\* C18: for every group whose operator is =~ or !=~ buildFilterString emits the
\* key, the operator without its trailing ~ and monitoring.regex.full_match("<value>")
\* with the value unchanged, whatever asterisks the value holds, and the text of
\* the other groups is what it is without that group.
C18_RegexOperators ==
  Built =>
     \A i \in 1..Len(executors) :
        FilterBuilt(i) =>
           \A g \in 1..NumGroups(FiltersOf(i)) :
              LET operator == GroupOperator(FiltersOf(i), g)
              IN  operator \in RegexOperators =>
                     EmittedAs(i, g, SubSeq(operator, 1, Len(operator) - 1),
                               Call(FullMatchName, GroupValue(FiltersOf(i), g)))

\* C19: for every well-formed filter token sequence, a value without asterisk is
\* emitted as an exact-match quoted clause: the key, the operator and the value
\* inside double quotes, character for character. Stated for the operators that are
\* no regex operators, = and !=.
C19_NoAsteriskIsQuoted ==
  Built =>
     \A i \in 1..Len(executors) :
        FilterBuilt(i) =>
           \A g \in 1..NumGroups(FiltersOf(i)) :
              LET value == GroupValue(FiltersOf(i), g)
              IN  (PlainGroup(i, g) /\ Asterisks(value) = {}) =>
                     EmittedAs(i, g, GroupOperator(FiltersOf(i), g),
                               <<"\"">> \o value \o <<"\"">>)

----------------------------------------------------------------------------
(* Properties of formatLegendKeys.                                         *)

(* the call of formatLegendKeys has returned *)
Named == pc = "named"

(* the service and the name of the metric types, by the convention *)
(* <service>.googleapis.com/<name> or <service>.io/<name>           *)
PartsOf(metricType) ==
  IF metricType = <<"c", "u", "s", "t", "o", "m", ".", "g", "o", "o", "g", "l", "e", "a", "p", "i", "s", ".", "c", "o", "m", "/", "m", "y", "_", "m", "e", "t", "r", "i", "c">>
  THEN [known |-> TRUE, service |-> <<"c", "u", "s", "t", "o", "m">>,
        name |-> <<"m", "y", "_", "m", "e", "t", "r", "i", "c">>]
  ELSE IF metricType = <<"k", "u", "b", "e", "r", "n", "e", "t", "e", "s", ".", "i", "o", "/", "c", "o", "n", "t", "a", "i", "n", "e", "r", "/", "c", "p", "u">>
  THEN [known |-> TRUE, service |-> <<"k", "u", "b", "e", "r", "n", "e", "t", "e", "s">>,
        name |-> <<"c", "o", "n", "t", "a", "i", "n", "e", "r", "/", "c", "p", "u">>]
  ELSE [known |-> FALSE]

(* the sources of a placeholder name, in the order of their priority *)
SourcesOf(name, call) ==
  <<[applies |-> name = MetricTypeKey, value |-> call.metricType],
    [applies |-> name = MetricNameKey /\ PartsOf(call.metricType).known,
     value |-> IF PartsOf(call.metricType).known THEN PartsOf(call.metricType).name
               ELSE <<>>],
    [applies |-> name = MetricServiceKey /\ PartsOf(call.metricType).known,
     value |-> IF PartsOf(call.metricType).known THEN PartsOf(call.metricType).service
               ELSE <<>>],
    [applies |-> name \in DOMAIN call.labels,
     value |-> IF name \in DOMAIN call.labels THEN call.labels[name] ELSE <<>>],
    [applies |-> name \in DOMAIN call.additionalLabels,
     value |-> IF name \in DOMAIN call.additionalLabels THEN call.additionalLabels[name]
               ELSE <<>>],
    [applies |-> name = ProjectKey /\ call.query.ProjectName # <<>>,
     value |-> call.query.ProjectName],
    [applies |-> name = ServiceKey /\ call.query.Service # <<>>,
     value |-> call.query.Service],
    [applies |-> name = SloKey /\ call.query.Slo # <<>>, value |-> call.query.Slo],
    [applies |-> name = SelectorKey /\ call.query.Selector # <<>>,
     value |-> call.query.Selector]>>

(* the value of the first source that applies; the placeholder as it stands *)
(* when none does                                                           *)
SubstituteOf(name, call) ==
  LET sources == SourcesOf(name, call)
      applying == {k \in 1..Len(sources) : sources[k].applies}
  IN  IF applying = {} THEN Placeholder(name, call.pad)
      ELSE sources[Least(applying)].value

(* the legend of the placeholders from g on, joined by " on ", and the text *)
(* after the last of them                                                   *)
RECURSIVE LegendOf(_, _)
LegendOf(call, g) ==
  IF g > Len(call.names) THEN call.tail
  ELSE (IF g > 1 THEN OnText ELSE <<>>) \o SubstituteOf(call.names[g], call)
       \o LegendOf(call, g + 1)

\* C20: for every placeholder {{ name }} of a non-empty alias template
\* formatLegendKeys substitutes the first source that applies, in the order: the
\* metric type for metric.type; the name or service part of the metric type for
\* metric.name and metric.service; the value of name in the primary label map; its
\* value in the additional label map; the query's project, service, slo or selector
\* for those four names. The text between the placeholders is kept. With metric type
\* custom.googleapis.com/my_metric, labels {instance: a} and the alias
\* "{{metric.name}} on {{instance}}" the result is "my_metric on a".
C20_LegendPriority ==
  (Named /\ legendCall.query.AliasBy # <<>>) =>
     /\ legendKey = LegendOf(legendCall, 1)
     /\ \A g \in 1..Len(legendCall.names) :
          (Len(legendCall.names) = 1 /\ legendCall.names[g] \in DOMAIN legendCall.labels
           /\ legendCall.names[g] \notin {MetricTypeKey, MetricNameKey, MetricServiceKey}) =>
             legendKey = legendCall.labels[legendCall.names[g]] \o legendCall.tail
     /\ (/\ legendCall.metricType = CustomMetricType
         /\ legendCall.labels = (InstanceKey :> <<"a">>)
         /\ legendCall.names = <<MetricNameKey, InstanceKey>>) =>
           legendKey = <<"m", "y", "_", "m", "e", "t", "r", "i", "c", " ", "o", "n", " ", "a">>

(* the example of the claim, with an additional label map that also holds instance *)
C20_Witness ==
  /\ Named
  /\ legendCall.query.AliasBy =
       <<"{", "{", "m", "e", "t", "r", "i", "c", ".", "n", "a", "m", "e", "}", "}", " ", "o", "n", " ", "{", "{", "i", "n", "s", "t", "a", "n", "c", "e", "}", "}">>
  /\ legendCall.metricType = CustomMetricType
  /\ legendCall.labels = (InstanceKey :> <<"a">>)
  /\ InstanceKey \in DOMAIN legendCall.additionalLabels
  /\ legendKey = <<"m", "y", "_", "m", "e", "t", "r", "i", "c", " ", "o", "n", " ", "a">>

StartsWith(s, t) == Len(s) >= Len(t) /\ SubSeq(s, 1, Len(t)) = t
EndsWith(s, t) == Len(s) >= Len(t) /\ SubSeq(s, Len(s) - Len(t) + 1, Len(s)) = t

(* no source resolves the placeholder name in the call *)
Unresolved(name, call) ==
  \A k \in 1..Len(SourcesOf(name, call)) : ~SourcesOf(name, call)[k].applies

\* C21: formatLegendKeys returns the default name unchanged when the alias template
\* is empty. Otherwise a placeholder that no source resolves stands in the result as
\* it is written in the template, with the blanks inside its braces: the result is
\* the template itself when none of its placeholders is resolved, it starts with the
\* first placeholder when that one is unresolved and ends with the last placeholder
\* and the text after it when that one is unresolved. The text outside placeholders
\* (" on " between two of them, the text after the last one, also braces that form
\* no placeholder) is kept. The call always returns a string.
C21_UnresolvedLeftVerbatim ==
  Named =>
    LET call == legendCall
        n == Len(call.names)
    IN  /\ legendKey \in Seq(STRING)
        /\ call.query.AliasBy = <<>> => legendKey = call.defaultMetricName
        /\ call.query.AliasBy # <<>> =>
             /\ (\A g \in 1..n : Unresolved(call.names[g], call)) =>
                   legendKey = call.query.AliasBy
             /\ (n > 0 /\ Unresolved(call.names[1], call)) =>
                   StartsWith(legendKey, Placeholder(call.names[1], call.pad))
             /\ (n > 0 /\ Unresolved(call.names[n], call)) =>
                   EndsWith(legendKey, Placeholder(call.names[n], call.pad) \o call.tail)
             /\ EndsWith(legendKey, call.tail)
             /\ n = 2 =>
                   \E i \in 0..Len(legendKey) :
                      /\ SubSeq(legendKey, i + 1, i + Len(OnText)) = OnText
                      /\ i + Len(OnText) <= Len(legendKey)
                      /\ Unresolved(call.names[1], call) =>
                           i = Len(Placeholder(call.names[1], call.pad))

(* {{ zone }} with no label named zone, and an empty template *)
C21_Witness ==
  /\ Named
  /\ legendCall.query.AliasBy = <<"{", "{", " ", "z", "o", "n", "e", " ", "}", "}">>
  /\ legendCall.additionalLabels = <<>>
  /\ legendKey = <<"{", "{", " ", "z", "o", "n", "e", " ", "}", "}">>

----------------------------------------------------------------------------
(* Properties of calcBucketBound.                                          *)

(* the call of calcBucketBound has returned, or has ended in a panic *)
Bounded == pc = "bound"
BoundPanicked == bucketCall.called /\ pc = "panic"

(* s is the decimal text of the integer v: an optional minus sign, then *)
(* digits without a leading zero                                         *)
IsDecimalOf(s, v) ==
  LET body == IF s # <<>> /\ s[1] = "-" THEN Tail(s) ELSE s
  IN  /\ body # <<>>
      /\ \A i \in 1..Len(body) : body[i] \in Digits
      /\ (Len(body) > 1 => body[1] # "0")
      /\ (s[1] = "-") <=> (v < 0)
      /\ DecimalValue(body) = (IF v < 0 THEN -v ELSE v)

\* C22: calcBucketBound returns "0" for the bucket index 0 whatever bucket options
\* are set (none, linear, exponential, explicit, also explicit ones without any
\* boundary), and for linear bucket options and an index n > 0 it returns the
\* decimal text of offset + width * (n - 1); offset 10, width 5 and n = 3 give "20".
C22_LinearBound ==
  (bucketCall.called /\ pc \in {"bound", "panic"}) =>
     LET n == bucketCall.n
         linear == bucketCall.bucketOptions.LinearBuckets
     IN  /\ n = 0 => (Bounded /\ bucketBound = <<"0">>)
         /\ (n > 0 /\ ~linear.nil) =>
               /\ Bounded
               /\ IsDecimalOf(bucketBound, linear.Offset + linear.Width * (n - 1))
               /\ (linear.Offset = 10 /\ linear.Width = 5 /\ n = 3) =>
                     bucketBound = <<"2", "0">>

(* the example of the claim *)
C22_Witness ==
  /\ Bounded
  /\ bucketCall.bucketOptions = [NoBuckets EXCEPT !.LinearBuckets = Linear(10, 5)]
  /\ bucketCall.n = 3
  /\ bucketBound = <<"2", "0">>

(* only the explicit description of the buckets is set *)
ExplicitOnly ==
  /\ bucketCall.called
  /\ bucketCall.bucketOptions.LinearBuckets.nil
  /\ bucketCall.bucketOptions.ExponentialBuckets.nil
  /\ ~bucketCall.bucketOptions.ExplicitBuckets.nil

ExplicitBounds == bucketCall.bucketOptions.ExplicitBuckets.Bounds

(* the text of the boundary values 0.5, 1, 2.5 and 1000000 *)
BoundText(f) ==
  CASE f = 2 -> <<"0", ".", "5">>
    [] f = 4 -> <<"1">>
    [] f = 10 -> <<"2", ".", "5">>
    [] f = 4000000 -> <<"1", "e", "+", "0", "6">>

\* C23: for explicit bucket options with k boundary values and a bucket index n
\* with 0 < n <= k, a call of calcBucketBound that returns, returns the text of the
\* n-th boundary value, the one n - 1 steps after the first (the first value for
\* n = 1), in line with the (n - 1) rule of the linear and exponential buckets.
C23_ExplicitBound ==
  (ExplicitOnly /\ Bounded /\ bucketCall.n > 0 /\ bucketCall.n <= Len(ExplicitBounds)) =>
     bucketBound = BoundText(ExplicitBounds[bucketCall.n])

\* C26: for explicit bucket options with k boundary values, which describe k + 1
\* buckets, calcBucketBound returns a bound for every bucket index n from 0 to k:
\* no such call ends in a panic, the boundary list is never read out of its range.
C26_EveryBucketHasABound ==
  (ExplicitOnly /\ bucketCall.n <= Len(ExplicitBounds) /\ pc \in {"bound", "panic"}) =>
     (Bounded /\ bucketBound # <<>>)

----------------------------------------------------------------------------
(* Properties of unmarshalResponse.                                        *)

(* the call of unmarshalResponse has returned *)
Unmarshalled == pc = "unmarshalled"

Is2xx(status) == status \in 200..299

(* the text of the body is JSON of the series-list shape: null, or an object *)
(* whose member timeSeries, when it is there, is null or an array of objects *)
SeriesListShape(body) ==
  /\ body.wellFormed
  /\ \/ body.top = "null"
     \/ /\ body.top = "object"
        /\ \/ body.timeSeries.kind \in {"absent", "null"}
           \/ /\ body.timeSeries.kind = "array"
              /\ \A k \in 1..Len(body.timeSeries.elems) :
                    body.timeSeries.elems[k] = "series"

(* the number of series the body holds *)
SeriesIn(body) ==
  IF body.top = "object" /\ body.timeSeries.kind = "array"
  THEN Len(body.timeSeries.elems) ELSE 0

(* the call returned an error and an empty response value *)
ReturnedError == unmarshalled.err # NoError /\ unmarshalled.data = EmptyResponse

(* the call returned the parsed response and no error *)
ReturnedParsed ==
  /\ unmarshalled.err = NoError
  /\ Len(unmarshalled.data.TimeSeries) = SeriesIn(httpRes.Body)

\* C24 as stated: unmarshalResponse returns an error and an empty response value
\* exactly when the status is not 2xx or the body is not JSON of the series-list
\* shape; for a 2xx status and a body of that shape it returns the parsed response
\* and no error.
C24_ErrorOnStatusOrBody ==
  Unmarshalled =>
     LET failure == ~Is2xx(httpRes.StatusCode) \/ ~SeriesListShape(httpRes.Body)
     IN  /\ ReturnedError <=> failure
         /\ ~failure => ReturnedParsed

\* C24, amended: unmarshalResponse returns an error and an empty response value
\* exactly when the body cannot be read to its end, the status is not 2xx, or the
\* body is not JSON of the series-list shape; otherwise it returns the parsed
\* response and no error. A body that cannot be read is reported as such whatever
\* the status is, and a status that is not 2xx before the body is parsed. The
\* response value is empty with every error, also when part of the body had been
\* decoded before the error was met. The call always returns.
C24_ErrorOnReadStatusOrBody ==
  Unmarshalled =>
     LET failure == \/ ~httpRes.Body.readable
                    \/ ~Is2xx(httpRes.StatusCode)
                    \/ ~SeriesListShape(httpRes.Body)
     IN  /\ unmarshalled.returned
         /\ ReturnedError <=> failure
         /\ ~failure => ReturnedParsed
         /\ ~httpRes.Body.readable => unmarshalled.err = "read"
         /\ (httpRes.Body.readable /\ ~Is2xx(httpRes.StatusCode)) =>
               unmarshalled.err = "query failed"

(* status 200 and a series list whose second element is not an object *)
C24_Witness ==
  /\ Unmarshalled
  /\ httpRes.StatusCode = 200
  /\ httpRes.Body.readable
  /\ httpRes.Body.wellFormed
  /\ httpRes.Body.timeSeries = [kind |-> "array", elems |-> <<"series", "bad">>]
  /\ unmarshalled.err = "failed to unmarshal query response"
  /\ unmarshalled.data = EmptyResponse

----------------------------------------------------------------------------
(* The run of an executor returns an error.                                *)

(* the first query of the batch whose run returns an error *)
FirstRunError == Least({i \in 1..Len(remote) : remote[i].run = "error"})

\* C25: executeTimeSeriesQuery runs the executors one at a time in the order of
\* the batch: while the loop is at executor idx, every executor before it was run
\* once and none after it was run. When a run returns an error, no executor
\* after it is run, and the call returns that error with a response that holds
\* the results of the queries before the failing one, each under its reference id,
\* and no entry for the failing query or for a query after it.
C25_RunErrorAborts ==
  (path = "timeseries" /\ Len(executors) > 0 /\ DistinctRefIDs) =>
     /\ pc \in {"run", "parse"} =>
           \A i \in 1..Len(executors) :
              /\ i < idx => runCount[i] = 1
              /\ i > idx => runCount[i] = 0
     /\ (pc = "done" /\ ~NoRunError) =>
           LET f == FirstRunError
           IN  /\ err = run(f).err
               /\ err # NoError
               /\ \A i \in 1..Len(executors) : runCount[i] = IF i <= f THEN 1 ELSE 0
               /\ DOMAIN resp = {queries[i].RefID : i \in 1..(f - 1)}
               /\ \A i \in 1..(f - 1) : resp[queries[i].RefID] = OwnResult(i)

(* the second of three runs returns an error after a first query whose remote *)
(* call failed                                                                 *)
C25_Witness ==
  /\ TimeSeriesDone
  /\ Len(executors) = 3
  /\ remote[1].run = "non2xx"
  /\ remote[2].run = "error"
  /\ err = "run failed"
  /\ DOMAIN resp = {queries[1].RefID}
  /\ runCount = <<1, 1, 0>>

----------------------------------------------------------------------------
(* Properties of FolderSettingsPage.                                       *)

SavePending(k) == k <= Len(saveFolderCalls) /\ saveFolderCalls[k].promise = "pending"
SaveSettled(k) ==
  k <= Len(saveFolderCalls) /\ saveFolderCalls[k].promise \in {"fulfilled", "rejected"}

\* C27: after onSave is invoked isLoading is true as long as its saveFolder is
\* pending, and once saveFolder has settled, resolved or rejected, isLoading is
\* eventually false again: the page does not stay in the loading state after the
\* save has ended.
C27_LoadingEndsWithSave ==
  /\ [](\A k \in 1..MaxSaves : SavePending(k) => isLoading)
  /\ \A k \in 1..MaxSaves : SaveSettled(k) ~> ~isLoading

----------------------------------------------------------------------------
(* Properties of AdminOrgsTable.                                           *)

(* the positions of the confirms among the events *)
Confirms == {p \in 1..Len(orgsEvents) : orgsEvents[p].type = "confirm"}

(* the dialog is open after the events up to p: the last of them is a click *)
OpenAfter(p) == p >= 1 /\ orgsEvents[p].type = "click"

(* the last click before position p *)
LastClickBefore(p) ==
  Greatest({q \in 1..(p - 1) : orgsEvents[q].type = "click"})

\* C28: over every sequence of delete-button clicks, confirms and dismissals of
\* AdminOrgsTable, the calls of onDelete are those of the confirms, one for each
\* confirm and in their order, each with the id of the organization whose delete
\* button was clicked last before it; a confirm or a dismissal happens only while
\* the dialog is open, that is right after a click, so there is at most one call
\* for each opening and a dismissal makes no call; after a confirm or a dismissal
\* no organization is pending (the dialog is closed), after a click the clicked one.
C28_DeleteOnlyOnConfirm ==
  LET confirms == Rising(Confirms)
      n == Len(orgsEvents)
  IN  /\ Len(onDeleteCalls) = Len(confirms)
      /\ \A c \in 1..Len(confirms) :
            onDeleteCalls[c] = orgsEvents[LastClickBefore(confirms[c])].id
      /\ \A p \in 1..n : orgsEvents[p].type # "click" => OpenAfter(p - 1)
      /\ (n = 0 \/ ~OpenAfter(n)) <=> deleteOrg = Undefined
      /\ (n > 0 /\ OpenAfter(n)) =>
            (deleteOrg \in Organizations /\ deleteOrg.id = orgsEvents[n].id)

(* two clicks, a confirm, and a click and a dismissal *)
C28_Witness ==
  /\ Len(orgsEvents) = 4
  /\ orgsEvents[1] = [type |-> "click", id |-> 1]
  /\ orgsEvents[2] = [type |-> "click", id |-> 2]
  /\ orgsEvents[3].type = "confirm"
  /\ orgsEvents[4].type = "click"
  /\ onDeleteCalls = <<2>>
  /\ deleteOrg # Undefined

----------------------------------------------------------------------------
(* Properties of AddToOrgModal.                                            *)

(* the positions among the first n picks at which an organization, a role was picked *)
OrgPicks(n) == {p \in 1..n : picked[p].type = "org"}
RolePicks(n) == {p \in 1..n : picked[p].type = "role"}

\* C29: in every reachable state of AddToOrgModal, also in the initial one in
\* which no organization has been selected, onAddUserToOrg does not fail, and
\* every call of onOrgAdd carries the id of the organization picked last before
\* it and the role picked last before it, Admin when no role was picked.
C29_AddNeverFails ==
  /\ ~modalError
  /\ \A c \in 1..Len(onOrgAddCalls) :
        LET call == onOrgAddCalls[c]
        IN  /\ OrgPicks(call.picks) # {}
            /\ call.orgId = picked[Greatest(OrgPicks(call.picks))].id
            /\ call.role = IF RolePicks(call.picks) = {} THEN OrgRoleAdmin
                            ELSE picked[Greatest(RolePicks(call.picks))].role

----------------------------------------------------------------------------
(* Properties of ShareExport.                                              *)

(* what the last step of an export gives, by the switches at its click *)
ResultOf(share, trim) ==
  LET first == IF share THEN Exportable ELSE SaveModelClone
  IN  IF trim THEN <<"trimmed">> \o first ELSE first

(* no step of the export is pending *)
AtRest(steps) == steps.makeExportable # "pending" /\ steps.post.state # "pending"

\* C30 as stated: an invocation of onSaveAsFile (or onViewJson) that has come to
\* rest has called makeExportable exactly when shareExternally was on at the
\* click, has posted to the trim endpoint exactly when trimDefaults was on, and
\* has opened the save dialog (the JSON modal) at most once.
C30_StepsBySwitches ==
  \A k \in 1..Len(exports) :
     AtRest(exports[k].steps) =>
        /\ exports[k].steps.makeExportable # "none" <=> exports[k].clicked.shareExternally
        /\ exports[k].steps.post.state # "none" <=> exports[k].clicked.trimDefaults
        /\ Len(exports[k].steps.opened) <= 1

\* C30, amended: for each of the four combinations of the switches shareExternally and
\* trimDefaults at the click, an invocation of onSaveAsFile (or onViewJson) calls
\* makeExportable exactly when shareExternally was on; it posts to the trim
\* endpoint only when trimDefaults was on, and then as soon as the step before is
\* done (at the click, or when makeExportable has resolved), with the output of
\* makeExportable when both were on and with the save-model clone otherwise; it
\* opens the save dialog (the JSON modal) at most once, when its last step is done
\* and with the result of that step. When makeExportable rejects, nothing is
\* posted although trimDefaults was on, and when a step rejects no dialog is
\* opened. The switches of the state at a later time, toggled while the export is
\* pending, do not change the steps.
C30_ExportSteps ==
  \A k \in 1..Len(exports) :
     LET share == exports[k].clicked.shareExternally
         trim == exports[k].clicked.trimDefaults
         steps == exports[k].steps
         before == IF share THEN steps.makeExportable = "fulfilled" ELSE TRUE
         last == IF trim THEN steps.post.state = "fulfilled" ELSE before
     IN  /\ steps.makeExportable # "none" <=> share
         /\ steps.post.state # "none" <=> (trim /\ before)
         /\ steps.post.state # "none" =>
               steps.post.dashboard = (IF share THEN Exportable ELSE SaveModelClone)
         /\ Len(steps.opened) <= 1
         /\ steps.opened # <<>> <=> last
         /\ steps.opened # <<>> =>
               /\ steps.opened[1].dashboard = ResultOf(share, trim)
               /\ steps.opened[1].dialog =
                    (IF steps.kind = "file" THEN "saveAs" ELSE "jsonModal")

(* both switches were on at the click and are off when the file is saved *)
C30_Witness ==
  /\ Len(exports) >= 1
  /\ exports[1].clicked = [shareExternally |-> TRUE, trimDefaults |-> TRUE]
  /\ ~shareExternally
  /\ ~trimDefaults
  /\ exports[1].steps.opened =
       <<[dialog |-> "saveAs", dashboard |-> <<"trimmed", "exportable">>]>>

====
